---- MODULE Spec2Model ----
(***************************************************************************)
(* Candidate selection and stream_links of utube.storage.Streamer, the    *)
(* quality profile catalog and selector chains of utube.quality, and the   *)
(* thumbnail workers and playback recovery of utube.ui.main.UTubeGui.      *)
(*                                                                         *)
(* Python values are represented as follows.                               *)
(*   - a string is the sequence of its characters, so that lower(),        *)
(*     strip() and startswith() are computed, never assumed;               *)
(*   - an optional value (dict.get, Optional[...]) is None == <<>> or      *)
(*     Some(v) == <<v>>;                                                   *)
(*   - a list is a sequence; a method that sorts a list in place returns,  *)
(*     next to its return value, the final value of the list it was given, *)
(*     so that the effect of a call on the caller's list is visible;       *)
(*   - a call that raises returns RaiseRet(exception);                     *)
(*   - yt-dlp selector expressions, which are only built and compared,     *)
(*     are TLA+ strings.                                                   *)
(***************************************************************************)
EXTENDS Integers, Sequences, FiniteSets, TLC

VARIABLES
    streamer,   \* the Streamer instance: profile, prefer_video, video_quality, preferred_format
    info,       \* the info dict handed to _select_format: [formats |-> list of candidates]
    result,     \* what the last call returned
    last,       \* the method called last: "none", "select" or "prefer"
    tracks,     \* the batch handed to stream_links: list of tracks
    pos,        \* stream_links: index of the track its loop handles next, 0 outside a call
    links,      \* stream_links: the list links built so far
    pc,         \* stream_links: "idle" (no call), "loop", "returned" or "raised"
    lookup,     \* utube.quality: the name handed to get_quality_profile
    qprofile,   \* utube.quality: the QualityProfile in hand
    chain,      \* utube.quality: the tuple of selectors read last
    gui,        \* the UTubeGui window: thread pool, thumbnail queue and counter, play attempts
    history     \* the events so far: requests, player errors, recovery workers started

vars == <<streamer, info, result, last, tracks, pos, links, pc, lookup, qprofile, chain,
          gui, history>>

----------------------------------------------------------------------------
(* Bounds *)

MaxFormats == 3     \* longest candidate list

----------------------------------------------------------------------------
(* Python values *)

None == <<>>
Some(v) == <<v>>

\* x or 0, for an optional number
OrZero(v) == IF v = None THEN 0 ELSE v[1]

\* x or "", for an optional string
OrEmpty(v) == IF v = None THEN <<>> ELSE v[1]

\* truth value of an optional string: None and "" are false
Truthy(v) == v # None /\ v[1] # <<>>

UpperChars == <<"A","B","C","D","E","F","G","H","I","J","K","L","M",
                "N","O","P","Q","R","S","T","U","V","W","X","Y","Z">>
LowerChars == <<"a","b","c","d","e","f","g","h","i","j","k","l","m",
                "n","o","p","q","r","s","t","u","v","w","x","y","z">>

LowerChar(c) ==
    IF \E i \in 1..26 : UpperChars[i] = c
    THEN LowerChars[CHOOSE i \in 1..26 : UpperChars[i] = c]
    ELSE c

\* str.lower()
Lower(s) == [i \in 1..Len(s) |-> LowerChar(s[i])]

\* str.startswith(prefix)
StartsWith(s, prefix) ==
    /\ Len(prefix) <= Len(s)
    /\ \A i \in 1..Len(prefix) : s[i] = prefix[i]

\* str.strip(): drop leading and trailing blanks
Strip(s) ==
    LET nonblank == {i \in 1..Len(s) : s[i] # " "}
    IN  IF nonblank = {} THEN <<>>
        ELSE LET lo == CHOOSE i \in nonblank : \A j \in nonblank : i <= j
                 hi == CHOOSE i \in nonblank : \A j \in nonblank : j <= i
             IN  SubSeq(s, lo, hi)

\* tuple comparison a > b for pairs of numbers
TupleGt(a, b) == a[1] > b[1] \/ (a[1] = b[1] /\ a[2] > b[2])

\* variant of SortedDesc: sorted ascending and then reversed, so that
\* elements with equal keys come out in reverse order
SortedDesc_ties_reversed(seq, keys) ==
    LET n == Len(seq)
        Before(j, i) == TupleGt(keys[j], keys[i]) \/ (keys[j] = keys[i] /\ j > i)
        Rank(i) == Cardinality({j \in 1..n : Before(j, i)}) + 1
    IN  [k \in 1..n |-> seq[CHOOSE i \in 1..n : Rank(i) = k]]

\* list.sort(key=..., reverse=True) on a list whose keys are keys[i]:
\* descending by key, elements with equal keys keep their relative order
SortedDesc(seq, keys) ==
    LET n == Len(seq)
        Before(j, i) == TupleGt(keys[j], keys[i]) \/ (keys[j] = keys[i] /\ j < i)
        Rank(i) == Cardinality({j \in 1..n : Before(j, i)}) + 1
    IN  [k \in 1..n |-> seq[CHOOSE i \in 1..n : Rank(i) = k]]

\* a string where a number is expected: a numeric field of a candidate is
\* None, Some(number) or the character codes of a string of several characters
IsStr(v) == Len(v) > 1

\* return values of a method returning Optional[dict]
NoneRet == [kind |-> "None"]
DictRet(c) == [kind |-> "dict", c |-> c]

\* outcome of a call that raised the exception exc
RaiseRet(exc) == [kind |-> "raise", exc |-> exc]

----------------------------------------------------------------------------
(* Strings used by the program and by the inputs *)

s_none == <<"n","o","n","e">>
s_opus == <<"o","p","u","s">>
s_aac == <<"a","a","c">>
s_mp4 == <<"m","p","4">>
s_low == <<"l","o","w">>
s_medium == <<"m","e","d","i","u","m">>
s_high == <<"h","i","g","h">>
s_data_saving == <<"d","a","t","a","_","s","a","v","i","n","g">>

----------------------------------------------------------------------------
(* utube.quality *)

VideoRequirement(min_height, min_fps) ==
    [min_height |-> min_height, min_fps |-> min_fps]

QualityProfile(name, audio_thresholds, video_requirements) ==
    [name |-> name,
     audio_thresholds |-> audio_thresholds,
     video_requirements |-> video_requirements,
     preferred_audio_codecs |-> <<s_opus, s_aac>>]

DEFAULT_PROFILE_NAME == s_high

ProfileHigh ==
    QualityProfile(s_high, <<256, 160, 128>>,
        <<VideoRequirement(1080, Some(60)), VideoRequirement(1080, None),
          VideoRequirement(720, Some(60)), VideoRequirement(720, None)>>)

ProfileMedium ==
    QualityProfile(s_medium, <<160, 128>>,
        <<VideoRequirement(720, None), VideoRequirement(480, Some(60)),
          VideoRequirement(480, None)>>)

ProfileDataSaving ==
    QualityProfile(s_data_saving, <<128, 96>>,
        <<VideoRequirement(480, None), VideoRequirement(360, None)>>)

QUALITY_PROFILE_MAP == <<ProfileHigh, ProfileMedium, ProfileDataSaving>>

QUALITY_PROFILES == {QUALITY_PROFILE_MAP[i].name : i \in 1..Len(QUALITY_PROFILE_MAP)}

\* variant of get_quality_profile: the name is looked up as it is written
get_quality_profile_case_sensitive(name) ==
    LET key == IF Truthy(name) THEN name[1] ELSE DEFAULT_PROFILE_NAME
    IN  IF \E i \in 1..Len(QUALITY_PROFILE_MAP) : QUALITY_PROFILE_MAP[i].name = key
        THEN QUALITY_PROFILE_MAP[CHOOSE i \in 1..Len(QUALITY_PROFILE_MAP) :
                                    QUALITY_PROFILE_MAP[i].name = key]
        ELSE ProfileHigh

\* name is Optional[str]
get_quality_profile(name) ==
    LET key == Lower(IF Truthy(name) THEN name[1] ELSE DEFAULT_PROFILE_NAME)
    IN  IF \E i \in 1..Len(QUALITY_PROFILE_MAP) : QUALITY_PROFILE_MAP[i].name = key
        THEN QUALITY_PROFILE_MAP[CHOOSE i \in 1..Len(QUALITY_PROFILE_MAP) :
                                    QUALITY_PROFILE_MAP[i].name = key]
        ELSE ProfileHigh

\* Selector expressions are TLA+ strings: they are built by concatenation
\* and number formatting and compared as wholes.

\* f"bestaudio[abr>={threshold}]"
AudioSelector(threshold) == "bestaudio[abr>=" \o ToString(threshold) \o "]"

\* "bestvideo", then [height>=H] if min_height is truthy, then [fps>=F] if
\* min_fps is truthy
VideoSelector(requirement) ==
    "bestvideo"
    \o (IF requirement.min_height # 0
        THEN "[height>=" \o ToString(requirement.min_height) \o "]" ELSE "")
    \o (IF OrZero(requirement.min_fps) # 0
        THEN "[fps>=" \o ToString(requirement.min_fps[1]) \o "]" ELSE "")

RECURSIVE AppendUnseen_all(_, _)
\* variant of AppendUnseen: every item is appended
AppendUnseen_all(selectors, items) ==
    IF items = <<>> THEN selectors
    ELSE AppendUnseen_all(Append(selectors, Head(items)), Tail(items))

RECURSIVE AppendUnseen(_, _)
\* for item in items: if item not in seen: selectors.append(item); seen.add(item)
\* (seen holds exactly the elements of selectors)
AppendUnseen(selectors, items) ==
    IF items = <<>> THEN selectors
    ELSE AppendUnseen(
            IF \E i \in 1..Len(selectors) : selectors[i] = Head(items)
            THEN selectors ELSE Append(selectors, Head(items)),
            Tail(items))

\* QualityProfile.audio_selectors
audio_selectors(self) ==
    AppendUnseen(
        AppendUnseen(<<>>, [i \in 1..Len(self.audio_thresholds) |->
                                AudioSelector(self.audio_thresholds[i])]),
        <<"bestaudio", "bestaudio/best">>)

\* QualityProfile.video_selectors
video_selectors(self) ==
    AppendUnseen(
        AppendUnseen(<<>>, [i \in 1..Len(self.video_requirements) |->
                                VideoSelector(self.video_requirements[i])]),
        <<"bestvideo", "bestvideo+bestaudio/best">>)

\* profile.video_selectors and profile.audio_selectors as
\* build_video_audio_selector reads them: the property of a QualityProfile,
\* the attribute of any other object
VideoSelectorsOf(p) ==
    IF "video_requirements" \in DOMAIN p THEN video_selectors(p) ELSE p.video_selectors

AudioSelectorsOf(p) ==
    IF "audio_thresholds" \in DOMAIN p THEN audio_selectors(p) ELSE p.audio_selectors

\* variant of Combinations: the audio selectors are walked in the outer loop
Combinations_audio_major(vs, as) ==
    [k \in 1..(Len(vs) * Len(as)) |->
        vs[((k - 1) % Len(vs)) + 1] \o "+" \o as[((k - 1) \div Len(vs)) + 1]]

\* f"{video_selector}+{audio_selector}" for video_selector in
\* profile.video_selectors, for audio_selector in profile.audio_selectors
Combinations(vs, as) ==
    [k \in 1..(Len(vs) * Len(as)) |->
        vs[((k - 1) \div Len(as)) + 1] \o "+" \o as[((k - 1) % Len(as)) + 1]]

\* the list combos of build_video_audio_selector when it is joined
combos(p) ==
    AppendUnseen(
        AppendUnseen(<<>>, Combinations(VideoSelectorsOf(p), AudioSelectorsOf(p))),
        <<"bestvideo+bestaudio", "bestvideo+bestaudio/best">>)

RECURSIVE Join(_, _)
\* sep.join(strs)
Join(sep, strs) ==
    IF strs = <<>> THEN ""
    ELSE IF Len(strs) = 1 THEN strs[1]
    ELSE strs[1] \o sep \o Join(sep, Tail(strs))

\* outcome of a function returning str
StrRet(s) == [kind |-> "str", value |-> s]

build_audio_selector(p) == Join("/", AudioSelectorsOf(p))

build_video_audio_selector(p) == Join("/", combos(p))

----------------------------------------------------------------------------
(* utube.storage.Streamer *)

\* Streamer.__init__: the fields the selection reads
NewStreamer(prefer_video, video_quality, preferred_format, quality_profile) ==
    [profile |-> get_quality_profile(quality_profile),
     prefer_video |-> prefer_video,
     video_quality |-> Lower(Strip(OrEmpty(video_quality))),
     preferred_format |-> preferred_format]

\* variant of HasVideoAndAudio: the audio codec is not looked at
HasVideo(c) == c.vcodec # None /\ c.vcodec # Some(s_none)

\* candidate.get("vcodec") not in (None, "none") and candidate.get("acodec") not in (None, "none")
HasVideoAndAudio(c) ==
    /\ c.vcodec # None /\ c.vcodec # Some(s_none)
    /\ c.acodec # None /\ c.acodec # Some(s_none)

\* candidate.get("acodec") not in (None, "none")
HasAudio(c) == c.acodec # None /\ c.acodec # Some(s_none)

_audio_score(c) == <<OrZero(c.abr), OrZero(c.tbr)>>

\* float(abr) or float(tbr) raises ValueError for a string that is no number
_audio_score_raises(c) == IsStr(c.abr) \/ IsStr(c.tbr)

\* the key (height, float(tbr)); a height that is a string is not converted,
\* and is ordered only against other strings (SortVideoExc), all of them the
\* same string here, written 0
_video_score(c) == <<IF IsStr(c.height) THEN 0 ELSE OrZero(c.height), OrZero(c.tbr)>>

\* float(tbr) raises ValueError for a string that is no number
_video_score_raises(c) == IsStr(c.tbr)

\* list.sort(key=self._video_score, reverse=True): the exception it raises on
\* list, None if it raises none. The keys are computed first; comparing a
\* string height with a number raises TypeError.
SortVideoExc(list) ==
    IF \E i \in 1..Len(list) : _video_score_raises(list[i]) THEN Some("ValueError")
    ELSE IF \E i, j \in 1..Len(list) : IsStr(list[i].height) /\ ~IsStr(list[j].height)
    THEN Some("TypeError")
    ELSE None

\* float(value), with 0.0 for None and for a string that is no number
_flexible_float(value) == IF value = None \/ IsStr(value) THEN 0 ELSE value[1]

\* height < requirement.min_height raises TypeError for a string
_meets_video_requirement_raises(c, requirement) == IsStr(c.height)

\* variant of _meets_video_requirement: a candidate without a height is not
\* tested against the height floor
_meets_video_requirement_unknown_height(c, requirement) ==
    IF c.height # None /\ c.height[1] < requirement.min_height THEN FALSE
    ELSE IF OrZero(requirement.min_fps) # 0
              /\ _flexible_float(c.fps) < requirement.min_fps[1] THEN FALSE
    ELSE TRUE

_meets_video_requirement(c, requirement) ==
    IF OrZero(c.height) < requirement.min_height THEN FALSE
    ELSE IF OrZero(requirement.min_fps) # 0
              /\ _flexible_float(c.fps) < requirement.min_fps[1] THEN FALSE
    ELSE TRUE

_target_video_profile(self) ==
    IF self.video_quality # <<>> THEN get_quality_profile(Some(self.video_quality))
    ELSE self.profile

\* variant of _video_quality_cap: the smallest min_height of the tiers
_video_quality_cap_smallest(self, profile) ==
    IF self.video_quality = <<>> THEN None
    ELSE LET reqs == profile.video_requirements
             set == {i \in 1..Len(reqs) : reqs[i].min_height # 0}
         IN  IF set = {} THEN None
             ELSE Some(reqs[CHOOSE i \in set :
                                \A j \in set : reqs[i].min_height <= reqs[j].min_height].min_height)

\* Optional[int]
_video_quality_cap(self, profile) ==
    IF self.video_quality = <<>> THEN None
    ELSE LET reqs == profile.video_requirements
             set == {i \in 1..Len(reqs) : reqs[i].min_height # 0}
         IN  IF set = {} THEN None
             ELSE Some(reqs[CHOOSE i \in set : \A j \in set : i <= j].min_height)

\* variant of _within_quality_cap: the cap itself is excluded
_within_quality_cap_strict(height, cap) ==
    IF height = None THEN TRUE ELSE height[1] < cap

\* int(height) raises ValueError for a string that is no number: True
_within_quality_cap(height, cap) ==
    IF height = None \/ IsStr(height) THEN TRUE ELSE height[1] <= cap

_apply_quality_cap(candidates, cap) ==
    IF OrZero(cap) = 0 THEN candidates
    ELSE SelectSeq(candidates, LAMBDA c : _within_quality_cap(c.height, cap[1]))

\* variant of _prefer_audio_codecs: the loops are exchanged, so the first
\* ranked candidate having any preferred codec is returned
_prefer_audio_codecs_candidate_major(self, candidates) ==
    IF candidates = <<>> THEN [ret |-> NoneRet, candidates |-> candidates]
    ELSE
      LET sorted == SortedDesc(candidates, [i \in 1..Len(candidates) |-> _audio_score(candidates[i])])
          codecs == self.profile.preferred_audio_codecs
          Hit(k, i) == StartsWith(Lower(OrEmpty(sorted[i].acodec)), Lower(codecs[k]))
          hits == {i \in 1..Len(sorted) : \E k \in 1..Len(codecs) : Hit(k, i)}
      IN  IF hits = {} THEN [ret |-> DictRet(sorted[1]), candidates |-> sorted]
          ELSE [ret |-> DictRet(sorted[CHOOSE x \in hits : \A y \in hits : x <= y]),
                candidates |-> sorted]

\* sorts the list it is given; ret is None for an empty list
_prefer_audio_codecs(self, candidates) ==
    IF candidates = <<>> THEN [ret |-> NoneRet, candidates |-> candidates]
    ELSE IF \E i \in 1..Len(candidates) : _audio_score_raises(candidates[i])
    THEN [ret |-> RaiseRet("ValueError"), candidates |-> candidates]
    ELSE
      LET sorted == SortedDesc(candidates, [i \in 1..Len(candidates) |-> _audio_score(candidates[i])])
          codecs == self.profile.preferred_audio_codecs
          Hit(k, i) == StartsWith(Lower(OrEmpty(sorted[i].acodec)), Lower(codecs[k]))
          hits == {k \in 1..Len(codecs) : \E i \in 1..Len(sorted) : Hit(k, i)}
      IN  IF hits = {} THEN [ret |-> DictRet(sorted[1]), candidates |-> sorted]
          ELSE LET k == CHOOSE x \in hits : \A y \in hits : x <= y
                   i == CHOOSE x \in 1..Len(sorted) :
                            Hit(k, x) /\ \A y \in 1..Len(sorted) : Hit(k, y) => x <= y
               IN  [ret |-> DictRet(sorted[i]), candidates |-> sorted]

\* variant of _select_audio_candidate: the thresholds are those of the
\* profile video_quality names
_select_audio_candidate_target_profile(self, formats) ==
    LET audio_candidates == SelectSeq(formats, HasAudio)
        thresholds == _target_video_profile(self).audio_thresholds
        Matches(t) == SelectSeq(audio_candidates, LAMBDA c : OrZero(c.abr) >= thresholds[t])
        met == {t \in 1..Len(thresholds) : Matches(t) # <<>>}
    IN  IF audio_candidates = <<>> THEN [ret |-> NoneRet, formats |-> formats]
        ELSE IF met # {}
        THEN LET t == CHOOSE x \in met : \A y \in met : x <= y
             IN  [ret |-> _prefer_audio_codecs(self, Matches(t)).ret, formats |-> formats]
        ELSE [ret |-> _prefer_audio_codecs(self, audio_candidates).ret, formats |-> formats]

\* variant of _select_audio_candidate: the thresholds are walked from the
\* last (lowest) to the first
_select_audio_candidate_lowest_first(self, formats) ==
    LET audio_candidates == SelectSeq(formats, HasAudio)
        thresholds == self.profile.audio_thresholds
        Matches(t) == SelectSeq(audio_candidates, LAMBDA c : OrZero(c.abr) >= thresholds[t])
        met == {t \in 1..Len(thresholds) : Matches(t) # <<>>}
    IN  IF audio_candidates = <<>> THEN [ret |-> NoneRet, formats |-> formats]
        ELSE IF met # {}
        THEN LET t == CHOOSE x \in met : \A y \in met : y <= x
             IN  [ret |-> _prefer_audio_codecs(self, Matches(t)).ret, formats |-> formats]
        ELSE [ret |-> _prefer_audio_codecs(self, audio_candidates).ret, formats |-> formats]

\* variant of _select_audio_candidate: nothing is returned when no threshold
\* is reached
_select_audio_candidate_no_fallback(self, formats) ==
    LET audio_candidates == SelectSeq(formats, HasAudio)
        thresholds == self.profile.audio_thresholds
        Matches(t) == SelectSeq(audio_candidates, LAMBDA c : OrZero(c.abr) >= thresholds[t])
        met == {t \in 1..Len(thresholds) : Matches(t) # <<>>}
    IN  IF audio_candidates = <<>> THEN [ret |-> NoneRet, formats |-> formats]
        ELSE IF met # {}
        THEN LET t == CHOOSE x \in met : \A y \in met : x <= y
             IN  [ret |-> _prefer_audio_codecs(self, Matches(t)).ret, formats |-> formats]
        ELSE [ret |-> NoneRet, formats |-> formats]

\* audio_candidates and matches are new lists: formats itself is not sorted
_select_audio_candidate(self, formats) ==
    LET audio_candidates == SelectSeq(formats, HasAudio)
        thresholds == self.profile.audio_thresholds
        Matches(t) == SelectSeq(audio_candidates, LAMBDA c : OrZero(c.abr) >= thresholds[t])
        met == {t \in 1..Len(thresholds) : Matches(t) # <<>>}
    IN  IF audio_candidates = <<>> THEN [ret |-> NoneRet, formats |-> formats]
        ELSE IF thresholds # <<>>
                /\ \E i \in 1..Len(audio_candidates) : IsStr(audio_candidates[i].abr)
        THEN [ret |-> RaiseRet("TypeError"), formats |-> formats]
        ELSE IF met # {}
        THEN LET t == CHOOSE x \in met : \A y \in met : x <= y
             IN  [ret |-> _prefer_audio_codecs(self, Matches(t)).ret, formats |-> formats]
        ELSE [ret |-> _prefer_audio_codecs(self, audio_candidates).ret, formats |-> formats]

\* variant of _select_video_candidate: when no tier matches, the best-ranked
\* candidate is returned whatever video_quality is
_select_video_candidate_best_always(self, formats) ==
    LET video_candidates == SelectSeq(formats, HasVideoAndAudio)
        profile == _target_video_profile(self)
        cap == _video_quality_cap(self, profile)
        reqs == profile.video_requirements
        Matches(r) == SelectSeq(video_candidates, LAMBDA c : _meets_video_requirement(c, reqs[r]))
        met == {r \in 1..Len(reqs) : Matches(r) # <<>>}
        Sorted(list) == SortedDesc(list, [i \in 1..Len(list) |-> _video_score(list[i])])
    IN  IF video_candidates = <<>> THEN [ret |-> NoneRet, formats |-> formats]
        ELSE IF met # {}
        THEN LET r == CHOOSE x \in met : \A y \in met : x <= y
                 filtered == _apply_quality_cap(Matches(r), cap)
                 selected == IF filtered # <<>> THEN filtered ELSE Matches(r)
             IN  [ret |-> DictRet(Sorted(selected)[1]), formats |-> formats]
        ELSE [ret |-> DictRet(Sorted(video_candidates)[1]), formats |-> formats]

\* variant of _select_video_candidate: the tiers are walked from the last
\* (least demanding) to the first
_select_video_candidate_last_tier_first(self, formats) ==
    LET video_candidates == SelectSeq(formats, HasVideoAndAudio)
        profile == _target_video_profile(self)
        cap == _video_quality_cap(self, profile)
        reqs == profile.video_requirements
        Matches(r) == SelectSeq(video_candidates, LAMBDA c : _meets_video_requirement(c, reqs[r]))
        met == {r \in 1..Len(reqs) : Matches(r) # <<>>}
        Sorted(list) == SortedDesc(list, [i \in 1..Len(list) |-> _video_score(list[i])])
    IN  IF video_candidates = <<>> THEN [ret |-> NoneRet, formats |-> formats]
        ELSE IF met # {}
        THEN LET r == CHOOSE x \in met : \A y \in met : y <= x
                 filtered == _apply_quality_cap(Matches(r), cap)
                 selected == IF filtered # <<>> THEN filtered ELSE Matches(r)
             IN  [ret |-> DictRet(Sorted(selected)[1]), formats |-> formats]
        ELSE LET ranked == Sorted(video_candidates)
             IN  [ret |-> DictRet(IF self.video_quality = s_low THEN ranked[Len(ranked)]
                                  ELSE IF self.video_quality = s_medium
                                       THEN ranked[(Len(ranked) \div 2) + 1]
                                  ELSE ranked[1]),
                  formats |-> formats]

\* variant of _select_video_candidate: when no tier matches, the pick is
\* made from formats, not from the ranked video_candidates
_select_video_candidate_from_formats(self, formats) ==
    LET video_candidates == SelectSeq(formats, HasVideoAndAudio)
        profile == _target_video_profile(self)
        cap == _video_quality_cap(self, profile)
        reqs == profile.video_requirements
        Matches(r) == SelectSeq(video_candidates, LAMBDA c : _meets_video_requirement(c, reqs[r]))
        met == {r \in 1..Len(reqs) : Matches(r) # <<>>}
        Sorted(list) == SortedDesc(list, [i \in 1..Len(list) |-> _video_score(list[i])])
    IN  IF video_candidates = <<>> THEN [ret |-> NoneRet, formats |-> formats]
        ELSE IF met # {}
        THEN LET r == CHOOSE x \in met : \A y \in met : x <= y
                 filtered == _apply_quality_cap(Matches(r), cap)
                 selected == IF filtered # <<>> THEN filtered ELSE Matches(r)
             IN  [ret |-> DictRet(Sorted(selected)[1]), formats |-> formats]
        ELSE [ret |-> DictRet(IF self.video_quality = s_low THEN formats[Len(formats)]
                              ELSE IF self.video_quality = s_medium
                                   THEN formats[(Len(formats) \div 2) + 1]
                              ELSE formats[1]),
              formats |-> formats]

\* video_candidates, matches and filtered are new lists: formats itself is not sorted
_select_video_candidate(self, formats) ==
    LET video_candidates == SelectSeq(formats, HasVideoAndAudio)
        profile == _target_video_profile(self)
        cap == _video_quality_cap(self, profile)
        reqs == profile.video_requirements
        Matches(r) == SelectSeq(video_candidates, LAMBDA c : _meets_video_requirement(c, reqs[r]))
        met == {r \in 1..Len(reqs) : Matches(r) # <<>>}
        Sorted(list) == SortedDesc(list, [i \in 1..Len(list) |-> _video_score(list[i])])
    IN  IF video_candidates = <<>> THEN [ret |-> NoneRet, formats |-> formats]
        ELSE IF reqs # <<>>
                /\ \E i \in 1..Len(video_candidates) :
                      _meets_video_requirement_raises(video_candidates[i], reqs[1])
        THEN [ret |-> RaiseRet("TypeError"), formats |-> formats]
        ELSE IF met # {}
        THEN LET r == CHOOSE x \in met : \A y \in met : x <= y
                 filtered == _apply_quality_cap(Matches(r), cap)
                 selected == IF filtered # <<>> THEN filtered ELSE Matches(r)
             IN  IF SortVideoExc(selected) # None
                 THEN [ret |-> RaiseRet(SortVideoExc(selected)[1]), formats |-> formats]
                 ELSE [ret |-> DictRet(Sorted(selected)[1]), formats |-> formats]
        ELSE IF SortVideoExc(video_candidates) # None
        THEN [ret |-> RaiseRet(SortVideoExc(video_candidates)[1]), formats |-> formats]
        ELSE LET ranked == Sorted(video_candidates)
             IN  [ret |-> DictRet(IF self.video_quality = s_low THEN ranked[Len(ranked)]
                                  ELSE IF self.video_quality = s_medium
                                       THEN ranked[(Len(ranked) \div 2) + 1]
                                  ELSE ranked[1]),
                  formats |-> formats]

\* variant of _select_format: a container override that matches no candidate
\* ends the selection
_select_format_override_final(self, inf) ==
    LET formats == SelectSeq(inf.formats, LAMBDA c : Truthy(c.url))
        preferred_candidates ==
            SelectSeq(formats, LAMBDA c : Some(Lower(OrEmpty(c.ext))) = self.preferred_format)
        preferred_video == SelectSeq(preferred_candidates, HasVideoAndAudio)
        ranked_video == SortedDesc(preferred_video,
                            [i \in 1..Len(preferred_video) |-> _video_score(preferred_video[i])])
        with_acodec == {i \in 1..Len(preferred_candidates) :
                            preferred_candidates[i].acodec # Some(s_none)}
        video == _select_video_candidate(self, formats)
    IN  IF formats = <<>> THEN [ret |-> NoneRet, info |-> inf]
        ELSE IF Truthy(self.preferred_format)
        THEN IF preferred_candidates = <<>> THEN [ret |-> NoneRet, info |-> inf]
             ELSE IF self.preferred_format = Some(s_mp4) /\ preferred_video # <<>>
             THEN [ret |-> DictRet(ranked_video[1]), info |-> inf]
             ELSE IF with_acodec # {}
             THEN [ret |-> DictRet(preferred_candidates[
                              CHOOSE i \in with_acodec : \A j \in with_acodec : i <= j]),
                   info |-> inf]
             ELSE [ret |-> DictRet(preferred_candidates[1]), info |-> inf]
        ELSE IF self.prefer_video /\ video.ret.kind = "dict"
        THEN [ret |-> video.ret, info |-> inf]
        ELSE [ret |-> _select_audio_candidate(self, formats).ret, info |-> inf]

\* variant of _select_format: with prefer_video the audio selection is not reached
_select_format_video_only(self, inf) ==
    LET formats == SelectSeq(inf.formats, LAMBDA c : Truthy(c.url))
        preferred_candidates ==
            SelectSeq(formats, LAMBDA c : Some(Lower(OrEmpty(c.ext))) = self.preferred_format)
        preferred_video == SelectSeq(preferred_candidates, HasVideoAndAudio)
        ranked_video == SortedDesc(preferred_video,
                            [i \in 1..Len(preferred_video) |-> _video_score(preferred_video[i])])
        with_acodec == {i \in 1..Len(preferred_candidates) :
                            preferred_candidates[i].acodec # Some(s_none)}
        video == _select_video_candidate(self, formats)
    IN  IF formats = <<>> THEN [ret |-> NoneRet, info |-> inf]
        ELSE IF Truthy(self.preferred_format) /\ preferred_candidates # <<>>
        THEN IF self.preferred_format = Some(s_mp4) /\ preferred_video # <<>>
             THEN [ret |-> DictRet(ranked_video[1]), info |-> inf]
             ELSE IF with_acodec # {}
             THEN [ret |-> DictRet(preferred_candidates[
                              CHOOSE i \in with_acodec : \A j \in with_acodec : i <= j]),
                   info |-> inf]
             ELSE [ret |-> DictRet(preferred_candidates[1]), info |-> inf]
        ELSE IF self.prefer_video
        THEN [ret |-> video.ret, info |-> inf]
        ELSE [ret |-> _select_audio_candidate(self, formats).ret, info |-> inf]

\* variant of _select_format: the prefer_video branch is missing
_select_format_no_video_branch(self, inf) ==
    LET formats == SelectSeq(inf.formats, LAMBDA c : Truthy(c.url))
        preferred_candidates ==
            SelectSeq(formats, LAMBDA c : Some(Lower(OrEmpty(c.ext))) = self.preferred_format)
        preferred_video == SelectSeq(preferred_candidates, HasVideoAndAudio)
        ranked_video == SortedDesc(preferred_video,
                            [i \in 1..Len(preferred_video) |-> _video_score(preferred_video[i])])
        with_acodec == {i \in 1..Len(preferred_candidates) :
                            preferred_candidates[i].acodec # Some(s_none)}
        video == _select_video_candidate(self, formats)
    IN  IF formats = <<>> THEN [ret |-> NoneRet, info |-> inf]
        ELSE IF Truthy(self.preferred_format) /\ preferred_candidates # <<>>
        THEN IF self.preferred_format = Some(s_mp4) /\ preferred_video # <<>>
             THEN [ret |-> DictRet(ranked_video[1]), info |-> inf]
             ELSE IF with_acodec # {}
             THEN [ret |-> DictRet(preferred_candidates[
                              CHOOSE i \in with_acodec : \A j \in with_acodec : i <= j]),
                   info |-> inf]
             ELSE [ret |-> DictRet(preferred_candidates[1]), info |-> inf]
        ELSE [ret |-> _select_audio_candidate(self, formats).ret, info |-> inf]

\* variant of _select_format: the "mp4" branch of the container override is missing
_select_format_no_mp4_branch(self, inf) ==
    LET formats == SelectSeq(inf.formats, LAMBDA c : Truthy(c.url))
        preferred_candidates ==
            SelectSeq(formats, LAMBDA c : Some(Lower(OrEmpty(c.ext))) = self.preferred_format)
        preferred_video == SelectSeq(preferred_candidates, HasVideoAndAudio)
        ranked_video == SortedDesc(preferred_video,
                            [i \in 1..Len(preferred_video) |-> _video_score(preferred_video[i])])
        with_acodec == {i \in 1..Len(preferred_candidates) :
                            preferred_candidates[i].acodec # Some(s_none)}
        video == _select_video_candidate(self, formats)
    IN  IF formats = <<>> THEN [ret |-> NoneRet, info |-> inf]
        ELSE IF Truthy(self.preferred_format) /\ preferred_candidates # <<>>
        THEN IF with_acodec # {}
             THEN [ret |-> DictRet(preferred_candidates[
                              CHOOSE i \in with_acodec : \A j \in with_acodec : i <= j]),
                   info |-> inf]
             ELSE [ret |-> DictRet(preferred_candidates[1]), info |-> inf]
        ELSE IF self.prefer_video /\ video.ret.kind = "dict"
        THEN [ret |-> video.ret, info |-> inf]
        ELSE [ret |-> _select_audio_candidate(self, formats).ret, info |-> inf]

\* variant of _select_format: candidates without a url are kept
_select_format_keeps_all(self, inf) ==
    LET formats == inf.formats
        preferred_candidates ==
            SelectSeq(formats, LAMBDA c : Some(Lower(OrEmpty(c.ext))) = self.preferred_format)
        preferred_video == SelectSeq(preferred_candidates, HasVideoAndAudio)
        ranked_video == SortedDesc(preferred_video,
                            [i \in 1..Len(preferred_video) |-> _video_score(preferred_video[i])])
        with_acodec == {i \in 1..Len(preferred_candidates) :
                            preferred_candidates[i].acodec # Some(s_none)}
        video == _select_video_candidate(self, formats)
    IN  IF formats = <<>> THEN [ret |-> NoneRet, info |-> inf]
        ELSE IF Truthy(self.preferred_format) /\ preferred_candidates # <<>>
        THEN IF self.preferred_format = Some(s_mp4) /\ preferred_video # <<>>
             THEN [ret |-> DictRet(ranked_video[1]), info |-> inf]
             ELSE IF with_acodec # {}
             THEN [ret |-> DictRet(preferred_candidates[
                              CHOOSE i \in with_acodec : \A j \in with_acodec : i <= j]),
                   info |-> inf]
             ELSE [ret |-> DictRet(preferred_candidates[1]), info |-> inf]
        ELSE IF self.prefer_video /\ video.ret.kind = "dict"
        THEN [ret |-> video.ret, info |-> inf]
        ELSE [ret |-> _select_audio_candidate(self, formats).ret, info |-> inf]

\* variant of _select_format: info["formats"] itself is sorted by _video_score
_select_format_sorts_input(self, inf) ==
    LET formats == SelectSeq(inf.formats, LAMBDA c : Truthy(c.url))
        preferred_candidates ==
            SelectSeq(formats, LAMBDA c : Some(Lower(OrEmpty(c.ext))) = self.preferred_format)
        preferred_video == SelectSeq(preferred_candidates, HasVideoAndAudio)
        ranked_video == SortedDesc(preferred_video,
                            [i \in 1..Len(preferred_video) |-> _video_score(preferred_video[i])])
        with_acodec == {i \in 1..Len(preferred_candidates) :
                            preferred_candidates[i].acodec # Some(s_none)}
        video == _select_video_candidate(self, formats)
        caller_list == SortedDesc(inf.formats,
                            [i \in 1..Len(inf.formats) |-> _video_score(inf.formats[i])])
    IN  IF formats = <<>> THEN [ret |-> NoneRet, info |-> [formats |-> caller_list]]
        ELSE IF Truthy(self.preferred_format) /\ preferred_candidates # <<>>
        THEN IF self.preferred_format = Some(s_mp4) /\ preferred_video # <<>>
             THEN [ret |-> DictRet(ranked_video[1]), info |-> [formats |-> caller_list]]
             ELSE IF with_acodec # {}
             THEN [ret |-> DictRet(preferred_candidates[
                              CHOOSE i \in with_acodec : \A j \in with_acodec : i <= j]),
                   info |-> [formats |-> caller_list]]
             ELSE [ret |-> DictRet(preferred_candidates[1]), info |-> [formats |-> caller_list]]
        ELSE IF self.prefer_video /\ video.ret.kind = "dict"
        THEN [ret |-> video.ret, info |-> [formats |-> caller_list]]
        ELSE [ret |-> _select_audio_candidate(self, formats).ret, info |-> [formats |-> caller_list]]

\* formats, preferred_candidates and preferred_video are new lists:
\* the list info["formats"] of the caller is neither assigned nor sorted
_select_format(self, inf) ==
    LET formats == SelectSeq(inf.formats, LAMBDA c : Truthy(c.url))
        preferred_candidates ==
            SelectSeq(formats, LAMBDA c : Some(Lower(OrEmpty(c.ext))) = self.preferred_format)
        preferred_video == SelectSeq(preferred_candidates, HasVideoAndAudio)
        ranked_video == SortedDesc(preferred_video,
                            [i \in 1..Len(preferred_video) |-> _video_score(preferred_video[i])])
        with_acodec == {i \in 1..Len(preferred_candidates) :
                            preferred_candidates[i].acodec # Some(s_none)}
        video == _select_video_candidate(self, formats)
    IN  IF formats = <<>> THEN [ret |-> NoneRet, info |-> inf]
        ELSE IF Truthy(self.preferred_format) /\ preferred_candidates # <<>>
        THEN IF self.preferred_format = Some(s_mp4) /\ preferred_video # <<>>
             THEN IF SortVideoExc(preferred_video) # None
                  THEN [ret |-> RaiseRet(SortVideoExc(preferred_video)[1]), info |-> inf]
                  ELSE [ret |-> DictRet(ranked_video[1]), info |-> inf]
             ELSE IF with_acodec # {}
             THEN [ret |-> DictRet(preferred_candidates[
                              CHOOSE i \in with_acodec : \A j \in with_acodec : i <= j]),
                   info |-> inf]
             ELSE [ret |-> DictRet(preferred_candidates[1]), info |-> inf]
        ELSE IF self.prefer_video /\ video.ret.kind # "None"
        THEN [ret |-> video.ret, info |-> inf]
        ELSE [ret |-> _select_audio_candidate(self, formats).ret, info |-> inf]

----------------------------------------------------------------------------
(* utube.ui.main.UTubeGui and utube.ui.workers.Worker *)

\* The window is one record, gui, holding the fields its handlers read and
\* write. Status texts, labels, temporary files and the images kept by the
\* library model are left out: no handler reads them to decide what to do. Every handler runs on the GUI thread, so
\* a handler is one step.

THUMBNAIL_WORKERS_LIMIT == 6

\* the payload Worker.run hands to finished when fn raised
WORKER_FAILED == "WORKER_FAILED"

\* dict.get(key, default), dict[key] = value, dict.pop(key, None)
DictGet(dict, key, default) == IF key \in DOMAIN dict THEN dict[key] ELSE default

DictSet(dict, key, value) ==
    [k \in DOMAIN dict \cup {key} |-> IF k = key THEN value ELSE dict[k]]

DictPop(dict, key) == [k \in DOMAIN dict \ {key} |-> dict[k]]

EmptyDict == [k \in {} |-> 0]

\* max(0, n)
Max0(n) == IF n > 0 THEN n ELSE 0

\* a Worker on the thread pool: its run() is under way ("running"), or has
\* raised and emitted error, with finished(WORKER_FAILED) still to be
\* delivered ("failed"). arg is the url or the track the closures hold.
Worker(context, arg) == [context |-> context, arg |-> arg, state |-> "running"]

\* UTubeGui.__init__, with the PlayerController and the library model it owns
NewGui ==
    [thread_pool |-> <<>>,
     _thumbnail_queue |-> <<>>,
     _thumbnail_inflight |-> 0,
     _play_attempts |-> EmptyDict,
     _last_streams |-> EmptyDict,
     _current_track |-> None]

\* self.thread_pool.start(worker)
_spawn_worker(self, context, arg) ==
    [self EXCEPT !.thread_pool = Append(@, Worker(context, arg))]

_start_next_thumbnail(self) ==
    IF self._thumbnail_inflight >= THUMBNAIL_WORKERS_LIMIT THEN self
    ELSE IF self._thumbnail_queue = <<>> THEN self
    ELSE _spawn_worker(
            [self EXCEPT !._thumbnail_queue = Tail(@), !._thumbnail_inflight = @ + 1],
            "thumbnail_fetch", Head(self._thumbnail_queue))

\* connected to thumbnailRequested of the library model
_on_thumbnail_requested(self, url) ==
    _start_next_thumbnail([self EXCEPT !._thumbnail_queue = Append(@, url)])

\* set_thumbnail_data stores or rejects the image in the library model
_on_thumbnail_finished(self, url, payload) ==
    _start_next_thumbnail([self EXCEPT !._thumbnail_inflight = Max0(@ - 1)])

\* mark_thumbnail_failed notes the url in the library model
_on_thumbnail_error(self, url, error) ==
    _start_next_thumbnail([self EXCEPT !._thumbnail_inflight = Max0(@ - 1)])

\* PlayerController.play_track, then the attempts of the track are dropped
_route_media_playback(self, track, link) ==
    [self EXCEPT !._current_track = Some(track),
                 !._play_attempts = DictPop(@, track.video_id),
                 !._last_streams = DictSet(@, track.video_id, link)]

_play_local_media(self, track, path) ==
    [self EXCEPT !._last_streams = DictSet(@, track.video_id, path),
                 !._play_attempts = DictPop(@, track.video_id),
                 !._current_track = Some(track)]

_retry_stream(self, track) == _spawn_worker(self, "resolve_stream", track)

_start_local_fallback(self, track) == _spawn_worker(self, "download_fallback", track)

_handle_player_error(self, message) ==
    IF self._current_track = None THEN self
    ELSE LET track == self._current_track[1]
             attempts == DictGet(self._play_attempts, track.video_id, 0) + 1
             counted == [self EXCEPT !._play_attempts = DictSet(@, track.video_id, attempts)]
         IN  IF attempts = 1 THEN _retry_stream(counted, track)
             ELSE IF attempts = 2 THEN _start_local_fallback(counted, track)
             ELSE counted

\* the on_finished closure _spawn_worker was given for the worker
on_finished(self, worker, payload) ==
    CASE worker.context = "thumbnail_fetch" -> _on_thumbnail_finished(self, worker.arg, payload)
      [] worker.context = "resolve_stream" -> _route_media_playback(self, worker.arg, payload)
      [] worker.context = "download_fallback" -> _play_local_media(self, worker.arg, payload)

\* the on_error closure, self._on_worker_error (a status text) without one
on_error(self, worker, error) ==
    IF worker.context = "thumbnail_fetch" THEN _on_thumbnail_error(self, worker.arg, error)
    ELSE self

\* variant of _handle_finished: the payload WORKER_FAILED is handed on
_handle_finished_unfiltered(self, worker, payload) == on_finished(self, worker, payload)

\* _spawn_worker._handle_finished, connected to worker.signals.finished
_handle_finished(self, worker, payload) ==
    IF payload = WORKER_FAILED THEN self ELSE on_finished(self, worker, payload)

\* the list without its i-th element
RemoveAt(list, i) == SubSeq(list, 1, i - 1) \o SubSeq(list, i + 1, Len(list))

\* what has happened so far: thumbnail requests made, player errors
\* reported, and workers started for a retry and for a local fallback
NoHistory == [requests |-> 0, errors |-> 0, retries |-> 0, fallbacks |-> 0]

\* the window is not in use
NoGui == gui = NewGui /\ history = NoHistory

----------------------------------------------------------------------------
(* Inputs *)

Candidate(format_id, url, ext, vcodec, acodec, height, fps, abr, tbr) ==
    [format_id |-> format_id, url |-> url, ext |-> ext, vcodec |-> vcodec,
     acodec |-> acodec, height |-> height, fps |-> fps, abr |-> abr, tbr |-> tbr,
     format_note |-> None]

s_url == <<"u">>
s_avc1 == <<"a","v","c","1">>
s_mp3 == <<"m","p","3">>
s_m4a == <<"m","4","a">>
s_webm == <<"w","e","b","m">>
s_Aac == <<"A","a","c">>
s_MP4 == <<"M","P","4">>
s_Medium == <<" ","M","e","d","i","u","m"," ">>
s_DATA_SAVING == <<"D","A","T","A","_","S","A","V","I","N","G">>
s_bogus == <<"b","o","g","u","s">>

\* the quality catalog is not being read
NoQuality ==
    /\ lookup = None
    /\ qprofile = ProfileHigh
    /\ chain = <<>>

\* no call of stream_links is under way
NoBatch ==
    /\ tracks = <<>>
    /\ pos = 0
    /\ links = <<>>
    /\ pc = "idle"

\* candidate lists of at most MaxFormats candidates drawn from pool
Lists(pool) == UNION {[1..n -> pool] : n \in 0..MaxFormats}

\* audio renditions: codec, bitrate and total bitrate vary
A_aac130 == Candidate("a1", Some(s_url), Some(s_m4a), Some(s_none), Some(s_aac), None, None, Some(130), None)
A_opus130 == Candidate("a2", Some(s_url), Some(s_webm), Some(s_none), Some(s_opus), None, None, Some(130), None)
A_opusNoAbr == Candidate("a3", Some(s_url), Some(s_webm), None, Some(s_opus), None, None, None, Some(50))
A_Aac100 == Candidate("a4", Some(s_url), Some(s_m4a), Some(s_none), Some(s_Aac), None, None, Some(100), Some(100))
A_mp3at300 == Candidate("a5", Some(s_url), Some(s_mp3), Some(s_none), Some(s_mp3), None, None, Some(300), Some(300))
A_videoonly == Candidate("a6", Some(s_url), Some(s_mp4), Some(s_avc1), Some(s_none), Some(720), Some(30), None, Some(900))
A_opus300NoUrl == Candidate("a7", None, Some(s_webm), Some(s_none), Some(s_opus), None, None, Some(300), Some(300))

AudioPool ==
    { A_aac130, A_opus130, A_opusNoAbr, A_Aac100, A_mp3at300, A_videoonly, A_opus300NoUrl }

AudioStreamers ==
    { NewStreamer(FALSE, vq, None, qp) :
        vq \in {None},
        qp \in {Some(s_high), Some(s_medium), Some(s_DATA_SAVING)} }

InitAudio ==
    /\ streamer \in AudioStreamers
    /\ info \in {[formats |-> f] : f \in Lists(AudioPool)}
    /\ result = NoneRet
    /\ last = "none"
    /\ NoBatch
    /\ NoGui
    /\ NoQuality

\* video renditions with audio: height, frame rate and total bitrate vary
V360 == Candidate("v1", Some(s_url), Some(s_mp4), Some(s_avc1), Some(s_aac), Some(360), Some(30), None, Some(300))
V480 == Candidate("v2", Some(s_url), Some(s_mp4), Some(s_avc1), Some(s_aac), Some(480), None, None, Some(800))
V480p60 == Candidate("v3", Some(s_url), Some(s_webm), Some(s_avc1), Some(s_opus), Some(480), Some(60), None, Some(500))
V720 == Candidate("v4", Some(s_url), Some(s_mp4), Some(s_avc1), Some(s_aac), Some(720), Some(30), None, Some(1000))
V1080 == Candidate("v5", Some(s_url), Some(s_mp4), Some(s_avc1), Some(s_aac), Some(1080), Some(30), None, Some(2000))
V1440NoUrl == Candidate("v6", None, Some(s_mp4), Some(s_avc1), Some(s_aac), Some(1440), Some(60), None, Some(4000))

VideoPool ==
    { V360, V480, V480p60, V720, V1080, V1440NoUrl, A_opus130 }

VideoStreamers ==
    { NewStreamer(TRUE, r[1], None, r[2]) :
        r \in { <<None, Some(s_high)>>, <<None, Some(s_medium)>>, <<None, Some(s_DATA_SAVING)>>,
                <<Some(s_Medium), Some(s_high)>>, <<Some(s_data_saving), Some(s_high)>>,
                <<Some(s_low), Some(s_medium)>> } }

InitVideo ==
    /\ streamer \in VideoStreamers
    /\ info \in {[formats |-> f] : f \in Lists(VideoPool)}
    /\ result = NoneRet
    /\ last = "none"
    /\ NoBatch
    /\ NoGui
    /\ NoQuality

\* renditions with a container: mp4 with video and audio, mp4 audio only
\* at a higher bitrate, m4a audio, mp4 video only
G_mp4_audio == Candidate("g1", Some(s_url), Some(s_MP4), Some(s_none), Some(s_aac), None, None, Some(256), Some(3000))

Pool ==
    { V720, V360, G_mp4_audio, A_aac130, A_videoonly, V1440NoUrl }

Streamers ==
    { NewStreamer(pv, r[1], pf, r[2]) :
        pv \in BOOLEAN,
        pf \in {None, Some(s_mp4), Some(s_m4a)},
        r \in { <<None, Some(s_high)>>, <<Some(s_low), Some(s_DATA_SAVING)>> } }

Init ==
    /\ streamer \in Streamers
    /\ info \in {[formats |-> f] : f \in Lists(Pool)}
    /\ result = NoneRet
    /\ last = "none"
    /\ NoBatch
    /\ NoGui
    /\ NoQuality

----------------------------------------------------------------------------
(* Operations *)

\* a call stream = self._select_format(info), as made by stream_links
SelectFormat ==
    /\ LET r == _select_format(streamer, info)
       IN  /\ result' = r.ret
           /\ info' = r.info
    /\ last' = "select"
    /\ UNCHANGED <<streamer, tracks, pos, links, pc, lookup, qprofile, chain, gui, history>>

\* a direct call self._prefer_audio_codecs(candidates) on the caller's list
PreferAudioCodecs ==
    /\ LET r == _prefer_audio_codecs(streamer, info.formats)
       IN  /\ result' = r.ret
           /\ info' = [formats |-> r.candidates]
    /\ last' = "prefer"
    /\ UNCHANGED <<streamer, tracks, pos, links, pc, lookup, qprofile, chain, gui, history>>

Next ==
    \/ SelectFormat
    \/ PreferAudioCodecs

Spec == Init /\ [][Next]_vars

SpecAudio == InitAudio /\ [][Next]_vars

SpecVideo == InitVideo /\ [][Next]_vars

----------------------------------------------------------------------------
(* Vocabulary of the properties *)

\* the candidates of the list in hand
Listed == {info.formats[i] : i \in 1..Len(info.formats)}

\* the candidates the selection works on: those with a url
Usable == {c \in Listed : Truthy(c.url)}

AudioCapable == {c \in Usable : HasAudio(c)}

VideoAndAudioCapable == {c \in Usable : HasVideoAndAudio(c)}

Thresholds ==
    {streamer.profile.audio_thresholds[i] : i \in 1..Len(streamer.profile.audio_thresholds)}

\* a is ranked at least as high as b
AudioRankGe(a, b) == ~TupleGt(_audio_score(b), _audio_score(a))

VideoRankGe(a, b) == ~TupleGt(_video_score(b), _video_score(a))

\* candidate c has the k-th preferred codec of the base profile
HasCodec(c, k) ==
    StartsWith(Lower(OrEmpty(c.acodec)), Lower(streamer.profile.preferred_audio_codecs[k]))

CodecRanks == 1..Len(streamer.profile.preferred_audio_codecs)

\* r is what the codec preference picks from the set S
CodecPreferred(S, r) ==
    /\ r \in S
    /\ IF \E k \in CodecRanks : \E c \in S : HasCodec(c, k)
       THEN \E k \in CodecRanks :
                /\ HasCodec(r, k)
                /\ \A j \in 1..(k - 1) : \A c \in S : ~HasCodec(c, j)
                /\ \A c \in S : HasCodec(c, k) => AudioRankGe(r, c)
       ELSE \A c \in S : AudioRankGe(r, c)

\* select was called for audio, without a container override
AudioSelection ==
    /\ last = "select"
    /\ ~streamer.prefer_video
    /\ streamer.preferred_format = None

----------------------------------------------------------------------------
(* Audio selection *)

\* C2: with prefer_video=false and no preferred_container, whenever some
\* audio-capable candidate reaches a threshold of the base profile, the
\* returned candidate's average bitrate (absent = 0) reaches the largest
\* threshold that some audio-capable candidate reaches.
C2_BitrateFloor ==
    (AudioSelection /\ AudioCapable # {}) =>
        \A t \in Thresholds :
            (\E c \in AudioCapable : OrZero(c.abr) >= t) =>
                result.kind = "dict" /\ OrZero(result.c.abr) >= t

\* the largest reached threshold is not the smallest one, and a candidate
\* below it was in the list
C2_Witness ==
    /\ AudioSelection
    /\ result.kind = "dict"
    /\ \E t \in Thresholds, u \in Thresholds :
          /\ u < t
          /\ OrZero(result.c.abr) >= t
          /\ \E c \in AudioCapable : OrZero(c.abr) >= u /\ OrZero(c.abr) < t

\* C3 as stated: when no audio-capable candidate reaches any threshold, the
\* returned candidate has the maximum average bitrate of the audio-capable set.
C3_Original ==
    (AudioSelection /\ AudioCapable # {}
        /\ \A t \in Thresholds : \A c \in AudioCapable : OrZero(c.abr) < t) =>
        /\ result.kind = "dict"
        /\ \A c \in AudioCapable : OrZero(result.c.abr) >= OrZero(c.abr)

\* C3 amended: when no audio-capable candidate reaches any threshold, select
\* returns what the codec preference picks from the whole audio-capable set:
\* the top-ranked candidate having the first preferred codec that any of them
\* has, and the top-ranked candidate of all only when none has a preferred codec.
C3_FallbackCodecPreferred ==
    (AudioSelection /\ AudioCapable # {}
        /\ \A t \in Thresholds : \A c \in AudioCapable : OrZero(c.abr) < t) =>
        /\ result.kind = "dict"
        /\ CodecPreferred(AudioCapable, result.c)

\* no threshold reached, and the preferred codec wins over a higher bitrate
C3_Witness ==
    /\ AudioSelection
    /\ result.kind = "dict"
    /\ \A t \in Thresholds : \A c \in AudioCapable : OrZero(c.abr) < t
    /\ \E c \in AudioCapable : OrZero(c.abr) > OrZero(result.c.abr)

\* C4: the codec preference applied to a non-empty list returns the
\* top-ranked candidate (average bitrate, then total bitrate, descending)
\* whose audio codec starts, ignoring case, with the first preferred codec
\* that any candidate of the list has, and the top-ranked candidate when no
\* candidate has a preferred codec; profile "high" with [aac@130, opus@130]
\* selects the opus candidate.
C4_CodecPreference ==
    /\ (last = "prefer" /\ info.formats # <<>>) =>
            result.kind = "dict" /\ CodecPreferred(Listed, result.c)
    /\ (AudioSelection /\ streamer.profile = ProfileHigh
            /\ info.formats = <<A_aac130, A_opus130>>) =>
            result = DictRet(A_opus130)

\* the second preferred codec decided, written in another case, below a
\* better-ranked candidate of no preferred codec
C4_Witness ==
    /\ last = "prefer"
    /\ result.kind = "dict"
    /\ ~HasCodec(result.c, 1) /\ HasCodec(result.c, 2)
    /\ result.c.acodec # Some(s_aac)
    /\ \E c \in Listed : TupleGt(_audio_score(c), _audio_score(result.c))

----------------------------------------------------------------------------
(* Video selection *)

\* select was called for video, without a container override, on a list
\* with a candidate that has video and audio
VideoSelection ==
    /\ last = "select"
    /\ streamer.prefer_video
    /\ streamer.preferred_format = None
    /\ VideoAndAudioCapable # {}

Tiers == _target_video_profile(streamer).video_requirements

\* the candidates matching the r-th tier of the active profile
TierMatches(r) == {c \in VideoAndAudioCapable : _meets_video_requirement(c, Tiers[r])}

\* r is the first tier some candidate matches
FirstMatched(r) ==
    /\ r \in 1..Len(Tiers)
    /\ TierMatches(r) # {}
    /\ \A q \in 1..(r - 1) : TierMatches(q) = {}

Cap == _video_quality_cap(streamer, _target_video_profile(streamer))

\* the candidates of S whose height does not exceed the cap
WithinCap(S) == {c \in S : c.height = None \/ c.height[1] <= Cap[1]}

\* r is a top-ranked candidate of S
VideoTop(S, r) == r \in S /\ \A c \in S : VideoRankGe(r, c)

\* C5 as stated: the first matched tier decides, and the returned candidate
\* is the maximum by (height, total_bitrate) of that tier's matching set.
C5_Original ==
    VideoSelection =>
        \A r \in 1..Len(Tiers) : FirstMatched(r) =>
            result.kind = "dict" /\ VideoTop(TierMatches(r), result.c)

\* C5 amended: the first matched tier decides; the returned candidate is the
\* maximum by (height, total_bitrate) of that tier's matching set, after the
\* set was reduced by the resolution cap when a video_quality_override is
\* given and some match lies within the cap. Profile "high" with 720p/30 and
\* 1080p/30 returns the 1080p candidate.
C5_FirstTierDecides ==
    /\ VideoSelection =>
        \A r \in 1..Len(Tiers) : FirstMatched(r) =>
            /\ result.kind = "dict"
            /\ result.c \in TierMatches(r)
            /\ IF Cap # None /\ WithinCap(TierMatches(r)) # {}
               THEN VideoTop(WithinCap(TierMatches(r)), result.c)
               ELSE VideoTop(TierMatches(r), result.c)
    /\ (VideoSelection /\ streamer.profile = ProfileHigh /\ streamer.video_quality = <<>>
            /\ info.formats = <<V720, V1080>>) =>
            result = DictRet(V1080)

\* a tier after the first decided, and a later tier admits a candidate of a
\* better rank than any the deciding tier admits
C5_Witness ==
    /\ VideoSelection
    /\ result.kind = "dict"
    /\ \E r \in 2..Len(Tiers) :
          /\ FirstMatched(r)
          /\ \E q \in (r + 1)..Len(Tiers) :
                \E c \in TierMatches(q) \ TierMatches(r) :
                    TupleGt(_video_score(c), _video_score(result.c))

\* C7: with a resolution cap, the deciding tier's matching set is reduced to
\* the candidates whose height does not exceed the cap, unless every match
\* exceeds it, and then the cap is ignored; with video_quality_override
\* "medium" (cap 720) and candidates at 480p or 360p, 720p and 1080p the 720p
\* candidate is returned.
C7_CapReducesTier ==
    /\ (VideoSelection /\ Cap # None) =>
        \A r \in 1..Len(Tiers) : FirstMatched(r) =>
            /\ result.kind = "dict"
            /\ (\E c \in TierMatches(r) : OrZero(c.height) <= Cap[1]) =>
                    /\ OrZero(result.c.height) <= Cap[1]
                    /\ \A c \in TierMatches(r) :
                          OrZero(c.height) <= Cap[1] => VideoRankGe(result.c, c)
            /\ (\A c \in TierMatches(r) : OrZero(c.height) > Cap[1]) =>
                    VideoTop(TierMatches(r), result.c)
    /\ (VideoSelection /\ streamer.video_quality = s_medium
            /\ {V720, V1080} \subseteq Listed
            /\ Listed \subseteq {V360, V480, V720, V1080}) =>
            /\ Cap = Some(720)
            /\ result = DictRet(V720)

\* the cap removed a better-ranked match of the deciding tier
C7_Witness ==
    /\ VideoSelection
    /\ Cap # None
    /\ result.kind = "dict"
    /\ OrZero(result.c.height) <= Cap[1]
    /\ \E r \in 1..Len(Tiers) :
          /\ FirstMatched(r)
          /\ \E c \in TierMatches(r) : OrZero(c.height) > Cap[1]

----------------------------------------------------------------------------
(* Selection as a whole *)

\* the candidates the container override keeps
InContainer == {c \in Usable : Some(Lower(OrEmpty(c.ext))) = streamer.preferred_format}

AudioOnly(c) == c.vcodec = None \/ c.vcodec = Some(s_none)

\* C1 as stated: with prefer_video=true and a candidate that has video and
\* audio, select never returns an audio-only candidate, whatever the
\* preferred_container.
C1_Original ==
    (last = "select" /\ streamer.prefer_video /\ VideoAndAudioCapable # {}) =>
        ~(result.kind = "dict" /\ AudioOnly(result.c))

\* C1 amended: with prefer_video=true, a candidate that has video and audio,
\* and a preferred_container that is unset or is the container of no
\* candidate, select never returns an audio-only candidate.
C1_VideoIntent ==
    (last = "select" /\ streamer.prefer_video /\ VideoAndAudioCapable # {}
        /\ InContainer = {}) =>
        ~(result.kind = "dict" /\ AudioOnly(result.c))

\* video was preferred over an audio candidate of the list, under a
\* container override that no candidate matches
C1_Witness ==
    /\ last = "select"
    /\ streamer.prefer_video
    /\ streamer.preferred_format # None
    /\ InContainer = {}
    /\ \E c \in AudioCapable : AudioOnly(c)
    /\ result.kind = "dict"
    /\ HasVideoAndAudio(result.c)

Mp4VideoAndAudio == {c \in InContainer : HasVideoAndAudio(c)}

\* C6: with preferred_container "mp4" and an mp4 candidate that has video
\* and audio, select returns the mp4 candidate with video and audio that is
\* greatest by (height, total_bitrate), whatever prefer_video is and whatever
\* the bitrate of an mp4 audio-only candidate.
C6_Mp4Override ==
    (last = "select" /\ streamer.preferred_format = Some(s_mp4)
        /\ Mp4VideoAndAudio # {}) =>
        result.kind = "dict" /\ VideoTop(Mp4VideoAndAudio, result.c)

\* audio was asked for, an mp4 audio-only candidate of a higher bitrate came
\* first in the list, and a second mp4 candidate with video and audio lost
C6_Witness ==
    /\ last = "select"
    /\ ~streamer.prefer_video
    /\ streamer.preferred_format = Some(s_mp4)
    /\ result.kind = "dict"
    /\ HasVideoAndAudio(result.c)
    /\ \E c \in InContainer :
          AudioOnly(c) /\ HasAudio(c) /\ OrZero(c.abr) > OrZero(result.c.abr)
    /\ \E c \in Mp4VideoAndAudio : TupleGt(_video_score(result.c), _video_score(c))
    /\ AudioOnly(info.formats[1])

\* C8: select returns None for an empty candidate list, and for a list with
\* no audio-capable candidate and no candidate in a set preferred_container.
C8_NoCandidate ==
    (last = "select"
        /\ \/ info.formats = <<>>
           \/ /\ \A c \in Listed : ~HasAudio(c)
              /\ \A c \in Listed : Some(Lower(OrEmpty(c.ext))) # streamer.preferred_format) =>
        result = NoneRet

\* a list of candidates with a url, none of them audio-capable, under a
\* container override and video intent
C8_Witness ==
    /\ last = "select"
    /\ result = NoneRet
    /\ streamer.prefer_video
    /\ streamer.preferred_format # None
    /\ Usable # {}
    /\ \A c \in Listed : ~HasAudio(c)

\* C9: when select returns a candidate c, select with the same request on
\* the list [c] returns c.
C9_Idempotent ==
    (last = "select" /\ result.kind = "dict") =>
        _select_format(streamer, [formats |-> <<result.c>>]).ret = result

\* a candidate was chosen among several usable ones
C9_Witness ==
    /\ last = "select"
    /\ result.kind = "dict"
    /\ Cardinality(Usable) >= 3

\* C10: a call of select leaves the caller's candidate list and the
\* Streamer's request unchanged, and a repeated call returns the same result.
C10_SelectIsPure ==
    [][SelectFormat =>
        /\ info' = info
        /\ streamer' = streamer
        /\ (last = "select" => result' = result)]_vars

\* select returned a candidate from a list that is in neither ranking order
C10_Witness ==
    /\ last = "select"
    /\ result.kind = "dict"
    /\ info.formats # SortedDesc(info.formats,
            [i \in 1..Len(info.formats) |-> _video_score(info.formats[i])])
    /\ info.formats # SortedDesc(info.formats,
            [i \in 1..Len(info.formats) |-> _audio_score(info.formats[i])])

----------------------------------------------------------------------------
(* Container override *)

\* an m4a rendition whose audio codec is not reported
K_m4a_nocodec == Candidate("k1", Some(s_url), Some(s_m4a), None, None, None, None, Some(128), Some(128))

ContainerPool ==
    { K_m4a_nocodec, A_aac130, A_videoonly, V720, G_mp4_audio }

ContainerStreamers ==
    { NewStreamer(pv, None, pf, Some(s_high)) :
        pv \in BOOLEAN,
        pf \in {None, Some(s_m4a), Some(s_mp4), Some(s_MP4), Some(s_mp3)} }

InitContainer ==
    /\ streamer \in ContainerStreamers
    /\ info \in {[formats |-> f] : f \in Lists(ContainerPool)}
    /\ result = NoneRet
    /\ last = "none"
    /\ NoBatch
    /\ NoGui
    /\ NoQuality

SpecContainer == InitContainer /\ [][Next]_vars

\* the usable candidates, in input order
UsableSeq == SelectSeq(info.formats, LAMBDA c : Truthy(c.url))

\* the usable candidates whose container equals the preferred container
\* ignoring letter case, in input order
SameContainer ==
    SelectSeq(UsableSeq,
        LAMBDA c : Truthy(streamer.preferred_format)
                    /\ Lower(OrEmpty(c.ext)) = Lower(streamer.preferred_format[1]))

\* the first element of a non-empty sequence that satisfies Test
FirstWhere(seq, Test(_)) ==
    seq[CHOOSE i \in 1..Len(seq) : Test(seq[i]) /\ \A j \in 1..(i - 1) : ~Test(seq[j])]

\* the video-container branch: preferred container "mp4" and a candidate of
\* that container with video and audio
VideoContainerBranch ==
    /\ streamer.preferred_format = Some(s_mp4)
    /\ \E i \in 1..Len(SameContainer) : HasVideoAndAudio(SameContainer[i])

\* C11 as stated, for a preferred_container written in lower case: when some
\* candidate has that container and the video-container branch does not
\* apply, select returns the first candidate of that container, in input
\* order, whose audio codec is present and not "none", and the first
\* candidate of that container if there is no such candidate.
C11_Original ==
    (last = "select" /\ Truthy(streamer.preferred_format)
        /\ streamer.preferred_format[1] = Lower(streamer.preferred_format[1])
        /\ SameContainer # <<>> /\ ~VideoContainerBranch) =>
        result = DictRet(IF \E i \in 1..Len(SameContainer) : HasAudio(SameContainer[i])
                         THEN FirstWhere(SameContainer, HasAudio)
                         ELSE SameContainer[1])

\* C12 as stated: a candidate whose container equals the preferred container
\* ignoring letter case, in whatever case either is written, belongs to the
\* filtered set, so that select returns a candidate of that container.
C12_Original ==
    (last = "select" /\ SameContainer # <<>>) =>
        /\ \A i \in 1..Len(SameContainer) : SameContainer[i] \in InContainer
        /\ result.kind = "dict"
        /\ Lower(OrEmpty(result.c.ext)) = Lower(streamer.preferred_format[1])

\* the request of the Streamer with preferred_format unset
WithoutContainer == [streamer EXCEPT !.preferred_format = None]

\* C13: when preferred_container is set and no candidate has that container,
\* select returns what it returns for the same candidates and the same
\* request with preferred_container unset.
C13_OverrideIgnored ==
    (last = "select" /\ Truthy(streamer.preferred_format) /\ SameContainer = <<>>) =>
        result = _select_format(WithoutContainer, info).ret

\* a candidate was chosen under a preferred container that no candidate of
\* the list has, with and without video intent
C13_Witness ==
    /\ last = "select"
    /\ streamer.preferred_format = Some(s_mp3)
    /\ SameContainer = <<>>
    /\ result.kind = "dict"
    /\ HasVideoAndAudio(result.c) = streamer.prefer_video
    /\ Len(UsableSeq) >= 2

\* the request of the Streamer with prefer_video=false
AudioIntent == [streamer EXCEPT !.prefer_video = FALSE]

\* C14: with prefer_video=true and no candidate that has both video and
\* audio, select returns what the same request with prefer_video=false
\* returns.
C14_VideoFallsThrough ==
    (last = "select" /\ streamer.prefer_video /\ VideoAndAudioCapable = {}) =>
        result = _select_format(AudioIntent, info).ret

\* video was asked for, the list holds a video-only and an audio candidate,
\* no container is preferred, and the audio candidate was returned
C14_Witness ==
    /\ last = "select"
    /\ streamer.prefer_video
    /\ streamer.preferred_format = None
    /\ VideoAndAudioCapable = {}
    /\ \E c \in Usable : ~AudioOnly(c)
    /\ result.kind = "dict"
    /\ AudioOnly(result.c)

----------------------------------------------------------------------------
(* Video selection when no tier is matched *)

s_LOW == <<" ","L","O","W">>
s_lowest == <<"l","o","w","e","s","t">>

\* renditions with video and audio below every tier of the catalog
F144 == Candidate("f1", Some(s_url), Some(s_mp4), Some(s_avc1), Some(s_aac), Some(144), Some(30), None, Some(100))
F240 == Candidate("f2", Some(s_url), Some(s_mp4), Some(s_avc1), Some(s_aac), Some(240), Some(30), None, Some(200))
F240b == Candidate("f3", Some(s_url), Some(s_webm), Some(s_avc1), Some(s_opus), Some(240), None, None, Some(250))

FallbackPool ==
    { F144, F240, F240b, V720, A_videoonly }

FallbackStreamers ==
    { NewStreamer(TRUE, r[1], None, r[2]) :
        r \in { <<None, Some(s_high)>>, <<Some(s_low), Some(s_high)>>,
                <<Some(s_LOW), Some(s_data_saving)>>, <<Some(s_medium), Some(s_high)>>,
                <<Some(s_Medium), Some(s_data_saving)>>, <<Some(s_high), Some(s_medium)>>,
                <<Some(s_lowest), Some(s_high)>> } }

InitFallback ==
    /\ streamer \in FallbackStreamers
    /\ info \in {[formats |-> f] : f \in Lists(FallbackPool)}
    /\ result = NoneRet
    /\ last = "none"
    /\ NoBatch
    /\ NoGui
    /\ NoQuality

SpecFallback == InitFallback /\ [][Next]_vars

\* the usable candidates with video and audio, in input order
VideoAndAudioSeq == SelectSeq(UsableSeq, HasVideoAndAudio)

\* the same candidates ranked by (height, total_bitrate), best first
VideoRanked ==
    SortedDesc(VideoAndAudioSeq,
        [i \in 1..Len(VideoAndAudioSeq) |-> _video_score(VideoAndAudioSeq[i])])

NoTierMatched == \A r \in 1..Len(Tiers) : TierMatches(r) = {}

\* C15: with prefer_video=true and no tier of the active profile matched,
\* select returns, from the candidates with video and audio ranked by
\* (height, total_bitrate) descending, the last one if the override name is
\* "low", the one at index floor(n/2) (counted from 0) if it is "medium",
\* and the first one otherwise; when a tier is matched the returned
\* candidate matches a tier, so no positional pick was made.
C15_PositionalPick ==
    VideoSelection =>
        /\ result.kind = "dict"
        /\ IF NoTierMatched
           THEN LET n == Len(VideoRanked)
                IN  result.c = IF streamer.video_quality = s_low THEN VideoRanked[n]
                               ELSE IF streamer.video_quality = s_medium
                                    THEN VideoRanked[(n \div 2) + 1]
                               ELSE VideoRanked[1]
           ELSE \E r \in 1..Len(Tiers) : result.c \in TierMatches(r)

\* three candidates of different rank, no tier matched, override "medium":
\* the middle one was returned, neither the best nor the worst
C15_Witness ==
    /\ VideoSelection
    /\ NoTierMatched
    /\ streamer.video_quality = s_medium
    /\ Len(VideoRanked) = 3
    /\ result.c = VideoRanked[2]
    /\ result.c # VideoRanked[1]
    /\ result.c # VideoRanked[3]
    /\ info.formats # VideoRanked

----------------------------------------------------------------------------
(* Audio selection under a video_quality override *)

OverridePool ==
    { A_opus130, A_mp3at300, A_Aac100, A_videoonly, V360 }

OverrideStreamers ==
    { NewStreamer(pv, vq, None, qp) :
        pv \in BOOLEAN,
        vq \in {None, Some(s_low), Some(s_DATA_SAVING)},
        qp \in {Some(s_high), Some(s_data_saving)} }

InitOverride ==
    /\ streamer \in OverrideStreamers
    /\ info \in {[formats |-> f] : f \in Lists(OverridePool)}
    /\ result = NoneRet
    /\ last = "none"
    /\ NoBatch
    /\ NoGui
    /\ NoQuality

SpecOverride == InitOverride /\ [][Next]_vars

\* values of video_quality as Streamer.__init__ stores them
Overrides == {<<>>, s_low, s_medium, s_high, s_data_saving, s_lowest}

\* select reaches the audio selection
AudioReached ==
    /\ last = "select"
    /\ ~streamer.prefer_video \/ VideoAndAudioCapable = {}

\* C16: whenever select reaches the audio selection (prefer_video=false, or
\* no candidate with video and audio), it returns the same result for every
\* value of video_quality_override.
C16_OverrideIrrelevant ==
    AudioReached =>
        \A vq \in Overrides :
            _select_format([streamer EXCEPT !.video_quality = vq], info).ret = result

\* base profile "high" under the override "data_saving": the candidate that
\* reaches a threshold of "high" won against a candidate with a preferred
\* codec that reaches only a threshold of "data_saving"
C16_Witness ==
    /\ AudioReached
    /\ streamer.profile.name = s_high
    /\ streamer.video_quality = s_data_saving
    /\ result.kind = "dict"
    /\ OrZero(result.c.abr) >= 256
    /\ ~(\E k \in CodecRanks : HasCodec(result.c, k))
    /\ \E c \in AudioCapable :
          /\ \E k \in CodecRanks : HasCodec(c, k)
          /\ OrZero(c.abr) >= 128

----------------------------------------------------------------------------
(* Candidates with a string in a numeric field *)

\* the string "bad" in a numeric field, as its character codes
n_bad == <<98, 97, 100>>

M_height == Candidate("m1", Some(s_url), Some(s_mp4), Some(s_avc1), Some(s_aac), n_bad, Some(30), None, Some(500))
M_abr == Candidate("m2", Some(s_url), Some(s_m4a), Some(s_none), Some(s_aac), None, None, n_bad, None)
M_tbr == Candidate("m3", Some(s_url), Some(s_m4a), Some(s_none), Some(s_aac), None, None, Some(130), n_bad)
M_fps == Candidate("m4", Some(s_url), Some(s_mp4), Some(s_avc1), Some(s_aac), Some(1080), n_bad, None, Some(2000))

MalformedPool ==
    { M_height, M_abr, M_tbr, M_fps, A_mp3at300, V720 }

MalformedStreamers ==
    { NewStreamer(pv, None, pf, Some(s_high)) :
        pv \in BOOLEAN,
        pf \in {None, Some(s_mp4)} }

InitMalformed ==
    /\ streamer \in MalformedStreamers
    /\ info \in {[formats |-> f] : f \in Lists(MalformedPool)}
    /\ result = NoneRet
    /\ last = "none"
    /\ NoBatch
    /\ NoGui
    /\ NoQuality

SpecMalformed == InitMalformed /\ [][Next]_vars

\* the value of a numeric field with a string taken as absent
NumberOrAbsent(v) == IF IsStr(v) THEN None ELSE v

\* candidate c with every string in a numeric field taken as absent
WellFormed(c) ==
    [c EXCEPT !.height = NumberOrAbsent(@), !.fps = NumberOrAbsent(@),
              !.abr = NumberOrAbsent(@), !.tbr = NumberOrAbsent(@)]

WellFormedRet(r) == IF r.kind = "dict" THEN DictRet(WellFormed(r.c)) ELSE r

\* C17 as stated: select does not raise, and returns the candidate it
\* returns for the list in which every non-numeric height, frame rate,
\* average bitrate and total bitrate is absent.
C17_Original ==
    last = "select" =>
        /\ result.kind # "raise"
        /\ WellFormedRet(result) =
              _select_format(streamer,
                  [formats |-> [i \in 1..Len(info.formats) |-> WellFormed(info.formats[i])]]).ret

----------------------------------------------------------------------------
(* Streamer.stream_links *)

MaxTracks == 3      \* longest batch of tracks

\* the fields of TrackMetadata that stream_links reads or passes on
TrackMetadata(video_id, webpage_url) ==
    [video_id |-> video_id, webpage_url |-> webpage_url]

\* format_id of a candidate dict that has no key "format_id"
NoKey == "<no key>"

s_hd == <<"h","d">>

StreamingLink(track, stream) ==
    [track |-> track,
     stream_url |-> stream.url,
     format_id |-> IF stream.format_id = NoKey THEN "unknown" ELSE stream.format_id,
     ext |-> stream.ext,
     abr |-> stream.abr,
     height |-> stream.height,
     vcodec |-> stream.vcodec,
     acodec |-> stream.acodec,
     format_note |-> stream.format_note]

\* pages of the site
s_page1 == <<"p","1">>
s_page2 == <<"p","2">>
s_page3 == <<"p","3">>
s_page4 == <<"p","4">>
s_page5 == <<"p","5">>
s_page6 == <<"p","6">>

\* a rendition with a note and without a format_id
N_noted == [Candidate(NoKey, Some(s_url), Some(s_webm), Some(s_avc1), Some(s_opus),
                      Some(1080), Some(30), Some(160), Some(2500))
               EXCEPT !.format_note = Some(s_hd)]

\* ydl.extract_info(url, download=False): the info dict of the page
extract_info(url) ==
    IF url = s_page1 THEN [formats |-> <<V720, A_opus130>>]
    ELSE IF url = s_page2 THEN [formats |-> <<A_videoonly>>]
    ELSE IF url = s_page3 THEN [formats |-> <<A_mp3at300, N_noted>>]
    ELSE IF url = s_page4 THEN [formats |-> <<M_abr>>]
    ELSE [formats |-> <<>>]

\* ydl.extract_info raises (yt_dlp DownloadError) for a page it cannot read
extract_info_raises(url) == url = s_page6

Tracks ==
    { TrackMetadata("t1", Some(s_page1)), TrackMetadata("t2", Some(s_page2)),
      TrackMetadata("t3", Some(s_page3)), TrackMetadata("t4", Some(s_page4)),
      TrackMetadata("t5", Some(s_page5)), TrackMetadata("t6", Some(<<>>)),
      TrackMetadata("t7", None), TrackMetadata("t8", Some(s_page6)) }

LinkStreamers ==
    { NewStreamer(pv, None, None, Some(s_high)) : pv \in BOOLEAN }

\* stream_links(tracks) has been called: links = [] and the loop starts
InitLinks ==
    /\ streamer \in LinkStreamers
    /\ tracks \in UNION {[1..n -> Tracks] : n \in 0..MaxTracks}
    /\ pos = 1
    /\ links = <<>>
    /\ pc = "loop"
    /\ info = [formats |-> <<>>]
    /\ result = NoneRet
    /\ last = "none"
    /\ NoQuality
    /\ NoGui

\* variant of StreamLinksSkip: a track without a page URL ends the loop
StreamLinksSkip_break ==
    /\ pc = "loop"
    /\ pos <= Len(tracks)
    /\ ~Truthy(tracks[pos].webpage_url)
    /\ pc' = "returned"
    /\ UNCHANGED <<streamer, info, result, last, tracks, pos, links, lookup, qprofile, chain, gui, history>>

\* if not track.webpage_url: continue
StreamLinksSkip ==
    /\ pc = "loop"
    /\ pos <= Len(tracks)
    /\ ~Truthy(tracks[pos].webpage_url)
    /\ pos' = pos + 1
    /\ UNCHANGED <<streamer, info, result, last, tracks, links, pc, lookup, qprofile, chain, gui, history>>

\* extract_info, _select_format and, for a candidate, links.append; an
\* exception of extract_info or of _select_format is not caught and ends
\* the call
StreamLinksResolve ==
    /\ pc = "loop"
    /\ pos <= Len(tracks)
    /\ Truthy(tracks[pos].webpage_url)
    /\ IF extract_info_raises(tracks[pos].webpage_url[1])
       THEN /\ pc' = "raised"
            /\ UNCHANGED <<info, result, last, pos, links>>
       ELSE LET inf == extract_info(tracks[pos].webpage_url[1])
                stream == _select_format(streamer, inf)
            IN  /\ info' = stream.info
                /\ result' = stream.ret
                /\ last' = "select"
                /\ IF stream.ret.kind = "raise"
                   THEN pc' = "raised" /\ UNCHANGED <<pos, links>>
                   ELSE /\ pc' = pc
                        /\ pos' = pos + 1
                        /\ links' = IF stream.ret.kind = "dict"
                                    THEN Append(links, StreamingLink(tracks[pos], stream.ret.c))
                                    ELSE links
    /\ UNCHANGED <<streamer, tracks, lookup, qprofile, chain, gui, history>>

\* return links
StreamLinksReturn ==
    /\ pc = "loop"
    /\ pos > Len(tracks)
    /\ pc' = "returned"
    /\ UNCHANGED <<streamer, info, result, last, tracks, pos, links, lookup, qprofile, chain, gui, history>>

NextLinks ==
    \/ StreamLinksSkip
    \/ StreamLinksResolve
    \/ StreamLinksReturn

SpecLinks == InitLinks /\ [][NextLinks]_vars

\* what select chooses for the i-th track of the batch
Chosen(i) == _select_format(streamer, extract_info(tracks[i].webpage_url[1])).ret

\* the i-th track has a page URL and select returns a candidate for it
Linked(i) ==
    /\ Truthy(tracks[i].webpage_url)
    /\ ~extract_info_raises(tracks[i].webpage_url[1])
    /\ Chosen(i).kind = "dict"

\* the page of the i-th track cannot be read, or select raises for it
Fails(i) ==
    /\ Truthy(tracks[i].webpage_url)
    /\ extract_info_raises(tracks[i].webpage_url[1]) \/ Chosen(i).kind = "raise"

\* the indices up to n of the tracks that get a link, in track order
LinkedUpTo(n) == SelectSeq([i \in 1..n |-> i], Linked)

\* the links of the first n tracks
LinksUpTo(n) ==
    [k \in 1..Len(LinkedUpTo(n)) |->
        LET t == tracks[LinkedUpTo(n)[k]]
            c == Chosen(LinkedUpTo(n)[k]).c
        IN  [track |-> t, stream_url |-> c.url,
             format_id |-> IF c.format_id = NoKey THEN "unknown" ELSE c.format_id,
             ext |-> c.ext, abr |-> c.abr, height |-> c.height,
             vcodec |-> c.vcodec, acodec |-> c.acodec, format_note |-> c.format_note]]

\* C18: stream_links handles the tracks in order; a track without a page URL
\* and a track for which select returns no candidate are passed over and do
\* not end the call; the list built, and at the end returned, holds in track
\* order one link for each other track, with that track and the url, format
\* id, container, bitrate, height, codecs and note of the candidate select
\* chose for it.
C18_LinksInOrder ==
    /\ pc = "loop" => links = LinksUpTo(pos - 1)
    /\ pc = "returned" => links = LinksUpTo(Len(tracks))
    /\ pc = "raised" => Fails(pos)

\* a batch of three was returned with one link, for its last track; the
\* first track has no page URL and select found no candidate for the second
C18_Witness ==
    /\ pc = "returned"
    /\ Len(tracks) = 3
    /\ ~Truthy(tracks[1].webpage_url)
    /\ Truthy(tracks[2].webpage_url) /\ Chosen(2) = NoneRet
    /\ Len(links) = 1
    /\ links[1].track = tracks[3]
    /\ links[1].format_note = Some(s_hd)
    /\ links[1].format_id = "unknown"

----------------------------------------------------------------------------
(* utube.quality: lookup and selector chains *)

MaxTiers == 3       \* longest list of thresholds or of requirements of a profile

s_HIGH == <<"H","I","G","H">>
s_MeDium == <<"M","e","D","i","u","m">>

\* names handed to get_quality_profile
Names ==
    { None, Some(<<>>), Some(s_high), Some(s_HIGH), Some(s_medium), Some(s_MeDium),
      Some(s_Medium), Some(s_data_saving), Some(s_DATA_SAVING), Some(s_bogus),
      Some(s_low) }

s_custom == <<"c","u","s","t","o","m">>

\* profiles built by the caller, with repeated thresholds, repeated
\* requirements and requirements without a height or a frame rate
Profiles ==
    { QualityProfile(s_custom, a, v) :
        a \in UNION {[1..n -> {128, 256}] : n \in 0..MaxTiers},
        v \in UNION {[1..n -> { VideoRequirement(720, None), VideoRequirement(720, Some(60)),
                               VideoRequirement(0, None), VideoRequirement(0, Some(60)) }] :
                        n \in 0..MaxTiers} }

InitQuality ==
    /\ \/ lookup \in Names /\ qprofile = ProfileHigh
       \/ lookup = None /\ qprofile \in Profiles \cup {ProfileMedium, ProfileDataSaving}
    /\ chain = <<>>
    /\ streamer = NewStreamer(FALSE, None, None, None)
    /\ info = [formats |-> <<>>]
    /\ result = NoneRet
    /\ last = "none"
    /\ NoBatch
    /\ NoGui

\* qprofile = get_quality_profile(lookup)
GetQualityProfile ==
    /\ qprofile' = get_quality_profile(lookup)
    /\ last' = "get_quality_profile"
    /\ UNCHANGED <<streamer, info, result, tracks, pos, links, pc, lookup, chain, gui, history>>

\* chain = qprofile.audio_selectors
AudioSelectors ==
    /\ chain' = audio_selectors(qprofile)
    /\ last' = "audio_selectors"
    /\ UNCHANGED <<streamer, info, result, tracks, pos, links, pc, lookup, qprofile, gui, history>>

\* chain = qprofile.video_selectors
VideoSelectors ==
    /\ chain' = video_selectors(qprofile)
    /\ last' = "video_selectors"
    /\ UNCHANGED <<streamer, info, result, tracks, pos, links, pc, lookup, qprofile, gui, history>>

NextQuality ==
    \/ GetQualityProfile
    \/ AudioSelectors
    \/ VideoSelectors

SpecQuality == InitQuality /\ [][NextQuality]_vars

Catalog == {QUALITY_PROFILE_MAP[i] : i \in 1..Len(QUALITY_PROFILE_MAP)}

\* the name is given and equals the name of catalog profile p ignoring case
Names_(p) == Truthy(lookup) /\ Lower(lookup[1]) = Lower(p.name)

\* C19: get_quality_profile returns the catalog profile whose name equals
\* the given name ignoring letter case, and the profile "high" when the name
\* is absent, empty or the name of no catalog profile.
C19_ResolveProfile ==
    last = "get_quality_profile" =>
        /\ qprofile \in Catalog
        /\ \A p \in Catalog : Names_(p) => qprofile = p
        /\ (\A p \in Catalog : ~Names_(p)) => qprofile.name = s_high

\* a catalog profile other than the default was found under a name written
\* in another case
C19_Witness ==
    /\ last = "get_quality_profile"
    /\ Truthy(lookup)
    /\ lookup[1] # Lower(lookup[1])
    /\ qprofile.name = Lower(lookup[1])
    /\ qprofile.name # s_high

\* the position of expression e in the chain c
Pos(c, e) == CHOOSE k \in 1..Len(c) : c[k] = e

\* c is a chain for the expressions exprs of a profile, in their order, with
\* the last fallback final
ChainOf(c, exprs, final) ==
    /\ \A i, j \in 1..Len(c) : c[i] = c[j] => i = j
    /\ c # <<>> /\ c[Len(c)] = final
    /\ \A i \in 1..Len(exprs) : \E k \in 1..(Len(c) - 1) : c[k] = exprs[i]
    /\ \A i, j \in 1..Len(exprs) :
          (i < j /\ exprs[i] # exprs[j] /\ \A h \in 1..(j - 1) : exprs[h] # exprs[j]) =>
              Pos(c, exprs[i]) < Pos(c, exprs[j])

\* C20: for every profile the audio and the video selector chain hold no
\* expression twice, hold the expressions of the profile's thresholds and
\* requirements in the profile's order, and end with "bestaudio/best" and
\* "bestvideo+bestaudio/best".
C20_Chains ==
    /\ last = "audio_selectors" =>
          ChainOf(chain, [i \in 1..Len(qprofile.audio_thresholds) |->
                            AudioSelector(qprofile.audio_thresholds[i])], "bestaudio/best")
    /\ last = "video_selectors" =>
          ChainOf(chain, [i \in 1..Len(qprofile.video_requirements) |->
                            VideoSelector(qprofile.video_requirements[i])],
                  "bestvideo+bestaudio/best")

\* the video chain of a profile with a repeated requirement after a
\* requirement without height and frame rate: "bestvideo" comes first and is
\* not appended again as a fallback
C20_Witness ==
    /\ last = "video_selectors"
    /\ qprofile.video_requirements =
          <<VideoRequirement(0, None), VideoRequirement(720, Some(60)), VideoRequirement(0, None)>>
    /\ chain = <<"bestvideo", "bestvideo[height>=720][fps>=60]", "bestvideo+bestaudio/best">>

----------------------------------------------------------------------------
(* utube.quality: the combined video and audio selector *)

MaxSelectors == 2   \* longest tuple of expressions of an object that is not a QualityProfile

\* objects with the two attributes build_video_audio_selector reads, as the
\* DummyProfile of the tests: any tuples of expressions, empty ones included
DummyProfiles ==
    { [video_selectors |-> v, audio_selectors |-> a] :
        v \in UNION {[1..n -> {"bestvideo", "bestvideo[height>=720]"}] : n \in 0..MaxSelectors},
        a \in UNION {[1..n -> {"bestaudio", "bestaudio/best", "bestaudio[abr>=128]"}] :
                        n \in 0..MaxSelectors} }

InitCombined ==
    /\ lookup = None
    /\ qprofile \in Catalog \cup DummyProfiles
    /\ chain = <<>>
    /\ streamer = NewStreamer(FALSE, None, None, None)
    /\ info = [formats |-> <<>>]
    /\ result = NoneRet
    /\ last = "none"
    /\ NoBatch
    /\ NoGui

\* result = build_video_audio_selector(qprofile); chain is its list combos
BuildVideoAudioSelector ==
    /\ chain' = combos(qprofile)
    /\ result' = StrRet(build_video_audio_selector(qprofile))
    /\ last' = "build_video_audio_selector"
    /\ UNCHANGED <<streamer, info, tracks, pos, links, pc, lookup, qprofile, gui, history>>

\* result = build_audio_selector(qprofile); chain is the list it joins
BuildAudioSelector ==
    /\ chain' = AudioSelectorsOf(qprofile)
    /\ result' = StrRet(build_audio_selector(qprofile))
    /\ last' = "build_audio_selector"
    /\ UNCHANGED <<streamer, info, tracks, pos, links, pc, lookup, qprofile, gui, history>>

NextCombined ==
    \/ BuildVideoAudioSelector
    \/ BuildAudioSelector

SpecCombined == InitCombined /\ [][NextCombined]_vars

VChain == VideoSelectorsOf(qprofile)
AChain == AudioSelectorsOf(qprofile)

\* the index pairs of the product, and the order in which a video-major walk
\* meets them
PairIdx == (1..Len(VChain)) \X (1..Len(AChain))
PairAt(p) == VChain[p[1]] \o "+" \o AChain[p[2]]
Pairs == {PairAt(p) : p \in PairIdx}
VideoMajor(p, q) == p[1] < q[1] \/ (p[1] = q[1] /\ p[2] < q[2])
MetBefore(x, y) ==
    \E p \in PairIdx : PairAt(p) = x /\ \A q \in PairIdx : PairAt(q) = y => VideoMajor(p, q)

CombinedFallbacks == <<"bestvideo+bestaudio", "bestvideo+bestaudio/best">>

\* C21: the combined chain holds the joined pairs of the video chain and the
\* audio chain once each, in the order a video-major walk first meets them
\* (so it starts with the first video expression joined with the first audio
\* expression), then "bestvideo+bestaudio" and "bestvideo+bestaudio/best",
\* each only if it is not already there; if a sub-chain is empty it is exactly
\* these two.
C21_CombinedChain ==
    last = "build_video_audio_selector" =>
        /\ \A i, j \in 1..Len(chain) : chain[i] = chain[j] => i = j
        /\ {chain[k] : k \in 1..Len(chain)} =
              Pairs \cup {CombinedFallbacks[1], CombinedFallbacks[2]}
        /\ \A x, y \in Pairs : (x # y /\ MetBefore(x, y)) => Pos(chain, x) < Pos(chain, y)
        /\ \A x \in Pairs : \A f \in {CombinedFallbacks[1], CombinedFallbacks[2]} \ Pairs :
              Pos(chain, x) < Pos(chain, f)
        /\ Pos(chain, CombinedFallbacks[1]) < Pos(chain, CombinedFallbacks[2])
              \/ CombinedFallbacks[1] \in Pairs \/ CombinedFallbacks[2] \in Pairs
        /\ PairIdx # {} => chain[1] = VChain[1] \o "+" \o AChain[1]
        /\ PairIdx = {} => chain = CombinedFallbacks

\* a repeated video expression gives each pair once, and both fallbacks are
\* appended behind the pairs
C21_Witness ==
    /\ last = "build_video_audio_selector"
    /\ VChain = <<"bestvideo[height>=720]", "bestvideo[height>=720]">>
    /\ AChain = <<"bestaudio[abr>=128]", "bestaudio">>
    /\ chain = <<"bestvideo[height>=720]+bestaudio[abr>=128]", "bestvideo[height>=720]+bestaudio",
                 "bestvideo+bestaudio", "bestvideo+bestaudio/best">>

----------------------------------------------------------------------------
(* The active profile and the resolution cap *)

\* outcome of a method returning Optional[int]
OptionalRet(v) == [kind |-> "optional", value |-> v]

s_blank == <<" ", " ">>

TargetStreamers ==
    { NewStreamer(pv, vq, None, qp) :
        pv \in BOOLEAN,
        vq \in { None, Some(<<>>), Some(s_blank), Some(s_high), Some(s_Medium),
                 Some(s_data_saving), Some(s_low), Some(s_bogus) },
        qp \in { None, Some(s_high), Some(s_medium), Some(s_DATA_SAVING) } }

\* profiles handed to _video_quality_cap by a caller of the method: tiers in
\* ascending order, a tier without a height, no tier
AscendingProfile ==
    QualityProfile(s_custom, <<128>>,
        <<VideoRequirement(0, Some(60)), VideoRequirement(360, None), VideoRequirement(720, None)>>)

NoHeightProfile == QualityProfile(s_custom, <<128>>, <<VideoRequirement(0, None)>>)

NoTierProfile == QualityProfile(s_custom, <<128>>, <<>>)

InitTarget ==
    /\ streamer \in TargetStreamers
    /\ qprofile \in {ProfileHigh, AscendingProfile, NoHeightProfile, NoTierProfile}
    /\ lookup = None
    /\ chain = <<>>
    /\ info = [formats |-> <<>>]
    /\ result = NoneRet
    /\ last = "none"
    /\ NoBatch
    /\ NoGui

\* profile = self._target_video_profile()
TargetVideoProfile ==
    /\ qprofile' = _target_video_profile(streamer)
    /\ last' = "_target_video_profile"
    /\ UNCHANGED <<streamer, info, result, tracks, pos, links, pc, lookup, chain, gui, history>>

\* cap = self._video_quality_cap(profile)
VideoQualityCap ==
    /\ result' = OptionalRet(_video_quality_cap(streamer, qprofile))
    /\ last' = "_video_quality_cap"
    /\ UNCHANGED <<streamer, info, tracks, pos, links, pc, lookup, qprofile, chain, gui, history>>

NextTarget ==
    \/ TargetVideoProfile
    \/ VideoQualityCap

SpecTarget == InitTarget /\ [][NextTarget]_vars

\* a video_quality_override is given: video_quality as the Streamer stores
\* it, stripped of blanks, is not empty
OverrideGiven == streamer.video_quality # <<>>

\* the cap was computed for the profile the override resolves to
CapOfOverride ==
    /\ last = "_video_quality_cap"
    /\ OverrideGiven
    /\ qprofile = get_quality_profile(Some(streamer.video_quality))

Heights(p) == {p.video_requirements[i].min_height : i \in 1..Len(p.video_requirements)}

\* C22 as stated: no cap without an override; with an override the cap is the
\* smallest min_height of the tiers of the profile the override resolves to.
C22_Original ==
    /\ (last = "_video_quality_cap" /\ ~OverrideGiven) => result.value = None
    /\ CapOfOverride =>
          /\ result.value # None
          /\ result.value[1] \in Heights(qprofile)
          /\ \A h \in Heights(qprofile) : result.value[1] <= h

\* C22 amended: no cap without an override; with an override the cap is the
\* min_height of the first tier, in the profile's order, that has a non-zero
\* min_height, and absent when there is no such tier. For the profile an
\* override resolves to this is the largest min_height of its tiers: 1080 for
\* "high" and for a name that is no catalog name, 720 for "medium", 480 for
\* "data_saving".
C22_CapIsFirstTier ==
    /\ (last = "_video_quality_cap" /\ ~OverrideGiven) => result.value = None
    /\ (last = "_video_quality_cap" /\ OverrideGiven) =>
          LET reqs == qprofile.video_requirements
          IN  /\ result.value = None <=> \A i \in 1..Len(reqs) : reqs[i].min_height = 0
              /\ result.value # None =>
                    \E i \in 1..Len(reqs) :
                        /\ reqs[i].min_height = result.value[1]
                        /\ \A j \in 1..(i - 1) : reqs[j].min_height = 0
    /\ CapOfOverride =>
          /\ result.value # None
          /\ \A h \in Heights(qprofile) : h <= result.value[1]
          /\ result.value[1] =
                CASE streamer.video_quality = s_medium -> 720
                  [] streamer.video_quality = s_data_saving -> 480
                  [] OTHER -> 1080

\* the override "medium" gives the cap 720, not the smallest height 480 of
\* the tiers of "medium"
C22_Witness ==
    /\ CapOfOverride
    /\ streamer.video_quality = s_medium
    /\ qprofile = ProfileMedium
    /\ result.value = Some(720)

\* the catalog profile the override names, if it names one
Named == {p \in Catalog : p.name = streamer.video_quality}

\* C24 as stated: the active profile of the video tier walk is the catalog
\* profile the video_quality_override names, and the base profile when the
\* override is absent, empty or the name of no catalog profile.
C24_Original ==
    last = "_target_video_profile" =>
        /\ \A p \in Named : qprofile = p
        /\ Named = {} => qprofile = streamer.profile

----------------------------------------------------------------------------
(* The resolution cap and the returned candidate *)

\* the candidates with video and audio whose height is within the cap and
\* which satisfy some tier of the active profile
WithinCapInSomeTier ==
    {c \in WithinCap(VideoAndAudioCapable) :
        \E r \in 1..Len(Tiers) : _meets_video_requirement(c, Tiers[r])}

\* C23 as stated: with a video_quality_override, select for video returns a
\* candidate whose height exceeds the cap only if no candidate with video and
\* audio whose height is within the cap satisfies any tier of the active
\* profile.
C23_Original ==
    (/\ last = "select"
     /\ streamer.prefer_video
     /\ OverrideGiven
     /\ Cap # None
     /\ result.kind = "dict"
     /\ OrZero(result.c.height) > Cap[1]) =>
        WithinCapInSomeTier = {}

----------------------------------------------------------------------------
(* One candidate against one video tier *)

\* outcome of a method returning bool
BoolRet(b) == [kind |-> "bool", value |-> b]

\* renditions with video and audio: every height with every frame rate
TierCandidates ==
    { Candidate("t1", Some(s_url), Some(s_mp4), Some(s_avc1), Some(s_aac), h, f, None, Some(500)) :
        h \in {None, Some(0), Some(480), Some(720), Some(1080)},
        f \in {None, Some(0), Some(30), Some(60)} }

\* tiers with and without a height floor and a frame rate floor
TierRequirements ==
    { VideoRequirement(h, f) : h \in {0, 720, 1080}, f \in {None, Some(0), Some(60)} }

InitTier ==
    /\ streamer = NewStreamer(TRUE, None, None, None)
    /\ info \in {[formats |-> <<c>>] : c \in TierCandidates}
    /\ qprofile \in {QualityProfile(s_custom, <<128>>, <<r>>) : r \in TierRequirements}
    /\ lookup = None
    /\ chain = <<>>
    /\ result = NoneRet
    /\ last = "none"
    /\ NoBatch
    /\ NoGui

\* self._meets_video_requirement(candidate, requirement) for the candidate
\* and the tier in hand
MeetsVideoRequirement ==
    /\ result' = BoolRet(_meets_video_requirement(info.formats[1], qprofile.video_requirements[1]))
    /\ last' = "_meets_video_requirement"
    /\ UNCHANGED <<streamer, info, tracks, pos, links, pc, lookup, qprofile, chain, gui, history>>

NextTier == MeetsVideoRequirement

SpecTier == InitTier /\ [][NextTier]_vars

TheCandidate == info.formats[1]
TheTier == qprofile.video_requirements[1]

\* a numeric field with absent counted as 0
Known(v) == IF v = None THEN 0 ELSE v[1]

\* C25: a candidate matches a tier exactly when its height (absent counted
\* as 0) is at least min_height and, if the tier sets min_fps, its frame rate
\* (absent counted as 0) is at least min_fps; so an absent frame rate never
\* fails a tier without min_fps, and an absent height always fails a tier
\* with a positive min_height.
C25_TierMatch ==
    last = "_meets_video_requirement" =>
        /\ result.value <=>
              /\ Known(TheCandidate.height) >= TheTier.min_height
              /\ TheTier.min_fps # None => Known(TheCandidate.fps) >= TheTier.min_fps[1]
        /\ (TheTier.min_fps = None /\ TheCandidate.fps = None) =>
              (result.value <=> Known(TheCandidate.height) >= TheTier.min_height)
        /\ (TheCandidate.height = None /\ TheTier.min_height > 0) => ~result.value

\* a candidate of sufficient height without a frame rate matches a tier
\* without min_fps
C25_Witness ==
    /\ last = "_meets_video_requirement"
    /\ TheCandidate.fps = None
    /\ TheCandidate.height = Some(1080)
    /\ TheTier = VideoRequirement(1080, None)
    /\ result.value

----------------------------------------------------------------------------
(* Candidates of equal rank *)

\* pairs of renditions of the same rank: video with audio at 720p and at
\* 360p (the latter with an audio codec that is not preferred), opus audio,
\* and an aac rendition of the rank of the opus ones
T720a == Candidate("w1", Some(s_url), Some(s_mp4), Some(s_avc1), Some(s_aac), Some(720), Some(30), None, Some(1000))
T720b == Candidate("w2", Some(s_url), Some(s_mp4), Some(s_avc1), Some(s_aac), Some(720), Some(60), None, Some(1000))
L360a == Candidate("w3", Some(s_url), Some(s_mp4), Some(s_avc1), Some(s_mp3), Some(360), Some(30), None, Some(300))
L360b == Candidate("w4", Some(s_url), Some(s_webm), Some(s_avc1), Some(s_mp3), Some(360), Some(30), None, Some(300))
O160a == Candidate("o1", Some(s_url), Some(s_webm), Some(s_none), Some(s_opus), None, None, Some(160), Some(160))
O160b == Candidate("o2", Some(s_url), Some(s_webm), None, Some(s_opus), None, None, Some(160), Some(160))
C160 == Candidate("c1", Some(s_url), Some(s_m4a), Some(s_none), Some(s_aac), None, None, Some(160), Some(160))

TiesPool == { T720a, T720b, L360a, L360b, O160a, O160b, C160 }

TiesStreamers ==
    { NewStreamer(FALSE, None, None, Some(s_high)),
      NewStreamer(TRUE, None, None, Some(s_high)),
      NewStreamer(TRUE, Some(s_medium), None, Some(s_high)),
      NewStreamer(FALSE, None, Some(s_mp4), Some(s_high)) }

InitTies ==
    /\ streamer \in TiesStreamers
    /\ info \in {[formats |-> f] : f \in Lists(TiesPool)}
    /\ result = NoneRet
    /\ last = "none"
    /\ NoBatch
    /\ NoGui
    /\ NoQuality

SpecTies == InitTies /\ [][Next]_vars

\* the place of the first occurrence of candidate c in the list in hand
Place(c) == CHOOSE i \in 1..Len(info.formats) :
                info.formats[i] = c /\ \A j \in 1..(i - 1) : info.formats[j] # c

\* r is the earliest candidate of the set S in the list in hand
Earliest(S, r) == \A c \in S : Place(r) <= Place(c)

\* the set whose video ranking decides: the matches of the first matched
\* tier (within the cap if any is), all candidates with video and audio when
\* no tier is matched and the best one is picked, the mp4 candidates with
\* video and audio under the container override "mp4"
VideoRankedSet ==
    IF streamer.preferred_format = Some(s_mp4) THEN Mp4VideoAndAudio
    ELSE IF \E r \in 1..Len(Tiers) : FirstMatched(r)
    THEN LET r == CHOOSE q \in 1..Len(Tiers) : FirstMatched(q)
         IN  IF Cap # None /\ WithinCap(TierMatches(r)) # {}
             THEN WithinCap(TierMatches(r)) ELSE TierMatches(r)
    ELSE IF streamer.video_quality \notin {s_low, s_medium} THEN VideoAndAudioCapable
    ELSE {}

\* the top of a video ranking was returned
VideoTopReturned ==
    /\ last = "select"
    /\ result.kind = "dict"
    /\ \/ streamer.preferred_format = Some(s_mp4) /\ Mp4VideoAndAudio # {}
       \/ VideoSelection
    /\ result.c \in VideoRankedSet

\* the audio-capable candidates reaching the first threshold, in the
\* profile's order, that some audio-capable candidate reaches; all
\* audio-capable candidates when none reaches any
AudioRankedSet ==
    LET ts == streamer.profile.audio_thresholds
        Reach(k) == {c \in AudioCapable : OrZero(c.abr) >= ts[k]}
    IN  IF \E k \in 1..Len(ts) : Reach(k) # {}
        THEN Reach(CHOOSE k \in 1..Len(ts) : Reach(k) # {} /\ \A j \in 1..(k - 1) : Reach(j) = {})
        ELSE AudioCapable

\* the candidates of the ranked set having the first preferred codec that
\* any of them has; the whole set when none has a preferred codec
CodecMatches ==
    IF \E k \in CodecRanks : \E c \in AudioRankedSet : HasCodec(c, k)
    THEN LET k == CHOOSE q \in CodecRanks :
                    /\ \E c \in AudioRankedSet : HasCodec(c, q)
                    /\ \A j \in 1..(q - 1) : \A c \in AudioRankedSet : ~HasCodec(c, j)
         IN  {c \in AudioRankedSet : HasCodec(c, k)}
    ELSE AudioRankedSet

\* the audio selection returned a candidate
AudioTopReturned ==
    /\ last = "select"
    /\ result.kind = "dict"
    /\ streamer.preferred_format = None
    /\ ~streamer.prefer_video \/ VideoAndAudioCapable = {}

\* C26: when select returns the top of a ranking (video candidates by
\* (height, total_bitrate), audio candidates by (average_bitrate,
\* total_bitrate), or the first candidate of the audio ranking having the
\* preferred codec), the returned candidate is the one that comes first in
\* the candidate list among those of the ranked set, and of that codec, that
\* have its key.
C26_StableTies ==
    /\ VideoTopReturned =>
          Earliest({c \in VideoRankedSet : _video_score(c) = _video_score(result.c)}, result.c)
    /\ AudioTopReturned =>
          /\ result.c \in CodecMatches
          /\ Earliest({c \in CodecMatches : _audio_score(c) = _audio_score(result.c)}, result.c)

\* two opus renditions of the same rank follow an aac rendition of that
\* rank; the first of the two is returned
C26_Witness ==
    /\ AudioTopReturned
    /\ info.formats = <<C160, O160b, O160a>>
    /\ result = DictRet(O160b)

----------------------------------------------------------------------------
(* Selection on a list with a usable audio-capable candidate *)

\* C27 as stated: for every request, if the candidate list holds an
\* audio-capable candidate that has a url, select returns a candidate.
C27_Original ==
    (last = "select" /\ AudioCapable # {}) => result.kind = "dict"

----------------------------------------------------------------------------
(* Candidates without a url *)

\* renditions without a url that would win by every rule if they were kept:
\* url absent, url the empty string, and one whose total bitrate is a string
U_opus_empty == Candidate("u1", Some(<<>>), Some(s_webm), Some(s_none), Some(s_opus), None, None, Some(300), Some(300))
U_tbr == Candidate("u2", None, Some(s_mp4), Some(s_avc1), Some(s_aac), Some(1080), Some(60), Some(300), n_bad)

UrlPool == { V1440NoUrl, U_opus_empty, U_tbr, V720, A_aac130, A_mp3at300 }

UrlStreamers ==
    { NewStreamer(pv, vq, pf, Some(s_high)) :
        pv \in BOOLEAN, vq \in {None, Some(s_medium)}, pf \in {None, Some(s_mp4)} }

InitUrl ==
    /\ streamer \in UrlStreamers
    /\ info \in {[formats |-> f] : f \in Lists(UrlPool)}
    /\ result = NoneRet
    /\ last = "none"
    /\ NoBatch
    /\ NoGui
    /\ NoQuality

SpecUrl == InitUrl /\ [][Next]_vars

\* the list in hand without its i-th candidate
Without(i) ==
    [k \in 1..(Len(info.formats) - 1) |->
        IF k < i THEN info.formats[k] ELSE info.formats[k + 1]]

\* C28: a candidate select returns is an element of the candidate list and
\* has a non-empty url; select returns the same on the list without any one
\* of its candidates that have no url, and on the list without all of them.
C28_UrlFilter ==
    last = "select" =>
        /\ result.kind = "dict" => (result.c \in Listed /\ Truthy(result.c.url))
        /\ \A i \in 1..Len(info.formats) :
              ~Truthy(info.formats[i].url) =>
                  result = _select_format(streamer, [formats |-> Without(i)]).ret
        /\ result = _select_format(streamer, [formats |-> UsableSeq]).ret

\* a rendition without a url that outranks the others, and is an mp4 with
\* video and audio, comes first; the 720p rendition is returned
C28_Witness ==
    /\ last = "select"
    /\ streamer.prefer_video
    /\ Len(info.formats) >= 2
    /\ info.formats[1] = V1440NoUrl
    /\ U_opus_empty \in Listed
    /\ result = DictRet(V720)

----------------------------------------------------------------------------
(* Workers on the thread pool and the events of the window *)

MaxRequests == 8    \* most thumbnail requests of a run
MaxErrors == 4      \* most player errors of a run

\* what a worker's fn can return: image bytes, a resolved link, a cached file
Payloads(context) ==
    CASE context = "thumbnail_fetch" -> {"bytes"}
      [] context = "resolve_stream" -> {"stream1", "stream2"}
      [] context = "download_fallback" -> {"file1"}

GuiIdle ==
    UNCHANGED <<streamer, info, result, last, tracks, pos, links, pc, lookup, qprofile, chain>>

\* Worker.run: fn returned, finished(result) reaches _handle_finished
WorkerFinished ==
    /\ \E i \in 1..Len(gui.thread_pool) :
         /\ gui.thread_pool[i].state = "running"
         /\ \E payload \in Payloads(gui.thread_pool[i].context) :
              gui' = _handle_finished(
                        [gui EXCEPT !.thread_pool = RemoveAt(@, i)],
                        gui.thread_pool[i], payload)
    /\ UNCHANGED history
    /\ GuiIdle

\* Worker.run: fn raised, error(WorkerError) reaches the on_error callback
WorkerRaised ==
    /\ \E i \in 1..Len(gui.thread_pool) :
         /\ gui.thread_pool[i].state = "running"
         /\ gui' = on_error(
                      [gui EXCEPT !.thread_pool[i].state = "failed"],
                      gui.thread_pool[i], "WorkerError")
    /\ UNCHANGED history
    /\ GuiIdle

\* Worker.run, the finally block after fn raised: finished(WORKER_FAILED)
WorkerFailed ==
    /\ \E i \in 1..Len(gui.thread_pool) :
         /\ gui.thread_pool[i].state = "failed"
         /\ gui' = _handle_finished(
                      [gui EXCEPT !.thread_pool = RemoveAt(@, i)],
                      gui.thread_pool[i], WORKER_FAILED)
    /\ UNCHANGED history
    /\ GuiIdle

\* the contexts of the workers a handler started
Started(before, after) ==
    LET n == Len(before.thread_pool)
        m == Len(after.thread_pool)
    IN  [k \in 1..(m - n) |-> after.thread_pool[n + k].context]

Count(contexts, c) == Cardinality({k \in DOMAIN contexts : contexts[k] = c})

\* the player reports errorOccurred, connected to _handle_player_error
PlayerError ==
    /\ history.errors < MaxErrors
    /\ gui' = _handle_player_error(gui, "error")
    /\ history' = [history EXCEPT
                     !.errors = @ + 1,
                     !.retries = @ + Count(Started(gui, gui'), "resolve_stream"),
                     !.fallbacks = @ + Count(Started(gui, gui'), "download_fallback")]
    /\ GuiIdle

\* the library model emits thumbnailRequested(url); the url of the k-th
\* request is written k, and no handler compares urls
ThumbnailRequested ==
    /\ history.requests < MaxRequests
    /\ gui' = _on_thumbnail_requested(gui, history.requests + 1)
    /\ history' = [history EXCEPT !.requests = @ + 1]
    /\ GuiIdle

NoSelection ==
    /\ streamer = NewStreamer(FALSE, None, None, None)
    /\ info = [formats |-> <<>>]
    /\ result = NoneRet
    /\ last = "none"
    /\ NoBatch
    /\ NoQuality

----------------------------------------------------------------------------
(* Recovery from playback errors *)

Track1 == [video_id |-> "v1"]

\* a track has been activated and routed to the player, or none has
InitRecovery ==
    /\ gui \in {NewGui, _route_media_playback(NewGui, Track1, "stream1")}
    /\ history = NoHistory
    /\ NoSelection

NextRecovery ==
    \/ PlayerError
    \/ WorkerFinished
    \/ WorkerRaised
    \/ WorkerFailed

SpecRecovery == InitRecovery /\ [][NextRecovery]_vars

\* C29: while a track is the current one, the errors reported for it start
\* one stream re-resolution (at the first error) and one local-fallback
\* download (at the second error) and nothing else, however the workers'
\* completions fall between the errors.
C29_Original ==
    gui._current_track # None =>
        /\ history.retries = (IF history.errors >= 1 THEN 1 ELSE 0)
        /\ history.fallbacks = (IF history.errors >= 2 THEN 1 ELSE 0)

----------------------------------------------------------------------------
(* The thumbnail workers *)

InitThumbnails ==
    /\ gui = NewGui
    /\ history = NoHistory
    /\ NoSelection

NextThumbnails ==
    \/ ThumbnailRequested
    \/ WorkerFinished
    \/ WorkerRaised
    \/ WorkerFailed

SpecThumbnails == InitThumbnails /\ [][NextThumbnails]_vars

\* the urls of the thumbnail workers started and not yet completed: a worker
\* has completed once its result or its error has been delivered
InFlight(self) ==
    {self.thread_pool[i].arg : i \in {k \in 1..Len(self.thread_pool) :
        /\ self.thread_pool[k].context = "thumbnail_fetch"
        /\ self.thread_pool[k].state = "running"}}

\* the urls asked for and not yet started are waiting in the order asked
FifoQueue ==
    LET n == Len(gui._thumbnail_queue)
    IN  /\ gui._thumbnail_queue = [k \in 1..n |-> history.requests - n + k]
        /\ \A u \in InFlight(gui) : \A k \in 1..n : u < gui._thumbnail_queue[k]

CounterExact ==
    /\ gui._thumbnail_inflight = Cardinality(InFlight(gui))
    /\ gui._thumbnail_inflight >= 0
    /\ gui._thumbnail_inflight <= THUMBNAIL_WORKERS_LIMIT
    /\ gui._thumbnail_queue # <<>> => gui._thumbnail_inflight = THUMBNAIL_WORKERS_LIMIT

\* a step in which one thumbnail worker completes, with its result or error
Completion == history' = history /\ InFlight(gui) \ InFlight(gui') # {}

\* a step that delivers finished(WORKER_FAILED) of a worker that has raised
LateFinished == history' = history /\ Len(gui'.thread_pool) < Len(gui.thread_pool)
                   /\ InFlight(gui) \subseteq InFlight(gui')

CompletionStep ==
    /\ Completion =>
         /\ Cardinality(InFlight(gui) \ InFlight(gui')) = 1
         /\ IF gui._thumbnail_queue = <<>>
            THEN /\ gui'._thumbnail_inflight = gui._thumbnail_inflight - 1
                 /\ InFlight(gui') \subseteq InFlight(gui)
                 /\ gui'._thumbnail_queue = <<>>
            ELSE /\ gui'._thumbnail_inflight = gui._thumbnail_inflight
                 /\ InFlight(gui') \ InFlight(gui) = {Head(gui._thumbnail_queue)}
                 /\ gui'._thumbnail_queue = Tail(gui._thumbnail_queue)
    /\ LateFinished =>
         /\ gui'._thumbnail_inflight = gui._thumbnail_inflight
         /\ InFlight(gui') = InFlight(gui)
         /\ gui'._thumbnail_queue = gui._thumbnail_queue

\* C30: at every moment _thumbnail_inflight is the number of thumbnail
\* workers started and not yet completed, between 0 and
\* THUMBNAIL_WORKERS_LIMIT, and the waiting urls are in the order asked; a
\* worker that completes, with a result or with an error, takes one off the
\* counter exactly once and the url at the head of the queue, if there is
\* one, is started in its place.
C30_InflightCounter == [](CounterExact /\ FifoQueue) /\ [][CompletionStep]_vars

\* all six workers are busy with urls 2..7, url 8 waits, and the worker of
\* url 1 has raised: its error took one off the counter and started url 7,
\* its finished(WORKER_FAILED) is still to come
C30_Witness ==
    /\ gui._thumbnail_inflight = THUMBNAIL_WORKERS_LIMIT
    /\ gui._thumbnail_queue = <<8>>
    /\ InFlight(gui) = 2..7
    /\ \E i \in 1..Len(gui.thread_pool) :
         gui.thread_pool[i] = [context |-> "thumbnail_fetch", arg |-> 1, state |-> "failed"]

====
